---------------------------- MODULE Spec2Model ----------------------------
(***************************************************************************)
(* TrustLens: the feature-to-score pipeline over its relational store.     *)
(*                                                                         *)
(* The store is the tables of src/src/trustlens/db/schema.py that the      *)
(* pipeline reads and writes: runs, evidence_items, source_priors,         *)
(* features, scores and trained_models.  Every service call is one action: *)
(* the program is single-threaded and each call ends in a commit.          *)
(*                                                                         *)
(* Floats are fixed-point integers in thousandths (0.5 is 500, 1.0 is      *)
(* 1000); times are whole days.  exp, log2 and log1p are tables of the     *)
(* values math.exp, math.log2 and math.log1p return, rounded to the        *)
(* thousandth.                                                             *)
(***************************************************************************)
EXTENDS Integers, Sequences, FiniteSets, TLC

VARIABLES
    clock,      \* datetime.utcnow(), in days
    runs,       \* table runs: run_id |-> row (run ids are 1..Len(runs))
    evidence,   \* table evidence_items, keyed by its UNIQUE url
    priors,     \* table source_priors, keyed by domain
    features,   \* table features, the rows of each run_id in insertion order
    scores,     \* table scores: a set of rows, each with its score_id
    models,     \* table trained_models: a sequence of rows
    ret,        \* what the last call returned or raised
    buckets,    \* RateLimiter.buckets: per client key, (count, minute bucket)
    time_s,     \* what RateLimiter.time_fn returns, in seconds
    seen,       \* per client key and minute, the calls of allow made and allowed
    fetcher     \* the locals of the evidence fetcher's _fetch and what it did

\* the web layer's own state
web == <<buckets, time_s, seen, fetcher>>

vars == <<clock, runs, evidence, priors, features, scores, models, ret, web>>

-----------------------------------------------------------------------------
(* Bounds of the model *)

MaxRuns == 2      \* runs created in one behaviour
MaxUrls == 2      \* distinct article URLs the fetcher can return
MaxClock == 1     \* days the wall clock can advance
MaxScoreId == 3   \* cap on scores.score_id, which grows with every upsert

RunIds == 1..MaxRuns
CallRunIds == 1..(MaxRuns + 1)   \* the ids a caller may pass: one never exists
Urls == 1..MaxUrls

-----------------------------------------------------------------------------
(* Values *)

None == "<None>"      \* Python None / SQL NULL in a string column
NoTime == 0 - 1         \* None in a datetime column
NoRow == [run_id |-> 0]   \* no evidence row with this url

Float(n) == n * 1000
Ratio(a, b) == (a * 1000) \div b      \* float(a / b)

Max2(a, b) == IF a >= b THEN a ELSE b
Min2(a, b) == IF a <= b THEN a ELSE b

RECURSIVE SumSeq(_)
SumSeq(s) == IF s = <<>> THEN 0 ELSE Head(s) + SumSeq(Tail(s))

RECURSIVE SetToSeq(_)
\* the elements of a finite set of integers in ascending order
SetToSeq(S) ==
    IF S = {} THEN <<>>
    ELSE LET m == CHOOSE x \in S : \A y \in S : x <= y
         IN <<m>> \o SetToSeq(S \ {m})

RECURSIVE Insert(_, _)
Insert(x, s) ==
    IF s = <<>> THEN <<x>>
    ELSE IF x <= Head(s) THEN <<x>> \o s
    ELSE <<Head(s)>> \o Insert(x, Tail(s))

RECURSIVE sorted(_)
\* Python's sorted() on a list of numbers
sorted(s) == IF s = <<>> THEN <<>> ELSE Insert(Head(s), sorted(Tail(s)))

SeqMax(s) == CHOOSE x \in {s[i] : i \in DOMAIN s} : \A j \in DOMAIN s : s[j] <= x
SeqMin(s) == CHOOSE x \in {s[i] : i \in DOMAIN s} : \A j \in DOMAIN s : x <= s[j]

-----------------------------------------------------------------------------
(* The articles the evidence fetcher can return.  The fields of an article *)
(* are those of the page its URL names.                                    *)

ArticleDomain(u) ==
    CASE u % 3 = 1 -> "nyt.com"
      [] u % 3 = 2 -> None
      [] OTHER     -> "local.com"

ArticleTitle(u) ==
    CASE u % 3 = 1 -> "NASA Launch Successful"
      [] u % 3 = 2 -> None
      [] OTHER     -> "Launch not confirmed"

\* GDELT's seendate, 'YYYYMMDDhhmmss'
ArticleSeendate(u) ==
    CASE u % 3 = 1 -> "20250101000000"
      [] u % 3 = 2 -> None
      [] OTHER     -> "20250102000000"

GdeltArticle(u) ==
    [url |-> u, domain |-> ArticleDomain(u), title |-> ArticleTitle(u),
     seendate |-> ArticleSeendate(u)]

ClaimTexts == {"NASA Launch"}
PriorDomains == {"nyt.com"}
PriorScores == {300, 900}
NoPrior == 0 - 1

-----------------------------------------------------------------------------
(* services/text_features.py *)

\* _TOKEN_RE.finditer(text): the maximal [A-Za-z0-9]+ runs of a text
TokenMatches(text) ==
    CASE text = "NASA Launch"            -> <<"NASA", "Launch">>
      [] text = "NASA Launch Successful" -> <<"NASA", "Launch", "Successful">>
      [] text = "Launch not confirmed"   -> <<"Launch", "not", "confirmed">>
      [] OTHER                           -> <<>>

\* str.lower() on a token
Lower(w) ==
    CASE w = "NASA"       -> "nasa"
      [] w = "Launch"     -> "launch"
      [] w = "Successful" -> "successful"
      [] OTHER            -> w

\* _ENTITY_RE: a token that starts with a capital and has a second character
IsEntity(w) == w \in {"NASA", "Launch", "Successful"}

CONTRADICTION_KEYWORDS ==
    {"not", "no", "false", "hoax", "debunk", "debunked", "deny", "denies",
     "refute", "refuted", "fake", "misleading"}

tokenize(text) ==
    LET m == TokenMatches(text) IN [i \in DOMAIN m |-> Lower(m[i])]

SeqToSet(s) == {s[i] : i \in DOMAIN s}

jaccard_similarity(a_tokens, b_tokens) ==
    LET a_set == SeqToSet(a_tokens)
        b_set == SeqToSet(b_tokens)
    IN IF a_set = {} /\ b_set = {} THEN 0
       ELSE Ratio(Cardinality(a_set \cap b_set), Cardinality(a_set \cup b_set))

extract_entities(text) ==
    LET m == TokenMatches(text) IN {m[i] : i \in {j \in DOMAIN m : IsEntity(m[j])}}

entity_overlap_ratio(claim_entities, evidence_entities) ==
    IF claim_entities = {} THEN 0
    ELSE Ratio(Cardinality(claim_entities \cap evidence_entities),
               Cardinality(claim_entities))

contradiction_signal(text) ==
    \E k \in CONTRADICTION_KEYWORDS : k \in SeqToSet(tokenize(text))

\* f"{title or ''} {snippet or ''}".strip() for a row whose snippet is NULL: no
\* code path of the repository stores a snippet
EvidenceText(title) == IF title = None THEN "" ELSE title

-----------------------------------------------------------------------------
(* Numeric tables *)

\* math.exp(-d / RECENCY_DECAY_DAYS) for a whole number of days d >= 0
ExpNeg(d) ==
    CASE d = 0 -> 1000
      [] d = 1 -> 368
      [] d = 2 -> 135
      [] d = 3 -> 50
      [] d = 4 -> 18
      [] d = 5 -> 7
      [] d = 6 -> 2
      [] d = 7 -> 1
      [] OTHER -> 0

\* -p * math.log2(p) for p = cnt / total
EntropyTerm(cnt, total) ==
    CASE cnt = total     -> 0
      [] 2 * cnt = total -> 500
      [] 3 * cnt = total -> 528
      [] 3 * cnt = 2 * total -> 390
      [] 4 * cnt = total -> 500
      [] 4 * cnt = 3 * total -> 311
      [] 5 * cnt = total -> 464
      [] 5 * cnt = 2 * total -> 529
      [] 5 * cnt = 3 * total -> 442
      [] 5 * cnt = 4 * total -> 258
      [] OTHER -> 0

-----------------------------------------------------------------------------
(* services/feature_extraction.py *)

HIGH_RELIABILITY_THRESHOLD == 800
DEFAULT_UNKNOWN_PRIOR == 500

Feature(run_id, group, name, value) ==
    [run_id |-> run_id, feature_group |-> group, feature_name |-> name,
     feature_value |-> value]

RunExists(run_id) == run_id \in DOMAIN runs

\* the evidence rows WHERE run_id = :run_id, as a list (by url)
EvidenceUrls(run_id) ==
    SetToSeq({u \in Urls : evidence[u] # NoRow /\ evidence[u].run_id = run_id})

EvidenceRows(run_id) ==
    LET us == EvidenceUrls(run_id) IN [i \in DOMAIN us |-> evidence[us[i]]]

RECURSIVE Filter(_, _)
\* [x for x in s if x not in drop]
Filter(s, drop) ==
    IF s = <<>> THEN <<>>
    ELSE IF Head(s) \in drop THEN Filter(Tail(s), drop)
    ELSE <<Head(s)>> \o Filter(Tail(s), drop)

_volume_features(run_id) ==
    LET rows == EvidenceRows(run_id)
        total_articles == Len(rows)
        \* COUNT(DISTINCT domain) skips NULL; "" is a domain like any other
        unique_domains ==
            Cardinality({rows[i].domain : i \in DOMAIN rows} \ {None})
    IN << Feature(run_id, "volume", "total_articles", Float(total_articles)),
          Feature(run_id, "volume", "unique_domains", Float(unique_domains)) >>

\* prior_map: the prior of each of the given domains that has a source_priors row
PriorKnown(d) == d \in DOMAIN priors /\ priors[d] # NoPrior

PriorOrDefault(d) == IF PriorKnown(d) THEN priors[d] ELSE DEFAULT_UNKNOWN_PRIOR

\* _source_quality_features with its two early returns merged into the second
_source_quality_features_merged(run_id) ==
    << Feature(run_id, "source_quality", "weighted_prior_mean", DEFAULT_UNKNOWN_PRIOR),
       Feature(run_id, "source_quality", "high_reliability_ratio", 0),
       Feature(run_id, "source_quality", "unknown_source_ratio", 1000) >>

_source_quality_features(run_id) ==
    LET rows == EvidenceRows(run_id)
        evidence_domains == [i \in DOMAIN rows |-> rows[i].domain]
        \* [d for d in evidence_domains if d]: None and "" are both dropped
        domains == Filter(evidence_domains, {None, ""})
        n == Len(domains)
        prior_scores == [i \in DOMAIN domains |-> PriorOrDefault(domains[i])]
        unknown_count ==
            Cardinality({i \in DOMAIN domains : ~PriorKnown(domains[i])})
        weighted_prior_mean == SumSeq(prior_scores) \div Len(prior_scores)
        unique_domains == SeqToSet(domains)
        high_domain_count ==
            Cardinality({d \in unique_domains :
                            PriorOrDefault(d) >= HIGH_RELIABILITY_THRESHOLD})
        high_reliability_ratio ==
            Ratio(high_domain_count, Cardinality(unique_domains))
        \* one prior per unique domain, as a sorted list
        unique_priors_sorted ==
            LET RECURSIVE Priors(_)
                Priors(D) ==
                    IF D = {} THEN <<>>
                    ELSE LET d == CHOOSE x \in D : TRUE
                         IN <<PriorOrDefault(d)>> \o Priors(D \ {d})
            IN sorted(Priors(unique_domains))
        median_prior ==
            unique_priors_sorted[(Len(unique_priors_sorted) \div 2) + 1]
        min_prior == unique_priors_sorted[1]
        max_prior == unique_priors_sorted[Len(unique_priors_sorted)]
        unknown_source_ratio == Ratio(unknown_count, Len(prior_scores))
    IN IF Len(evidence_domains) = 0
       THEN << Feature(run_id, "source_quality", "weighted_prior_mean", DEFAULT_UNKNOWN_PRIOR),
               Feature(run_id, "source_quality", "high_reliability_ratio", 0),
               Feature(run_id, "source_quality", "unknown_source_ratio", 0) >>
       ELSE IF n = 0
       THEN << Feature(run_id, "source_quality", "weighted_prior_mean", DEFAULT_UNKNOWN_PRIOR),
               Feature(run_id, "source_quality", "high_reliability_ratio", 0),
               Feature(run_id, "source_quality", "unknown_source_ratio", 1000) >>
       ELSE << Feature(run_id, "source_quality", "weighted_prior_mean", weighted_prior_mean),
               Feature(run_id, "source_quality", "high_reliability_ratio", high_reliability_ratio),
               Feature(run_id, "source_quality", "unknown_source_ratio", unknown_source_ratio),
               Feature(run_id, "source_quality", "median_prior", median_prior),
               Feature(run_id, "source_quality", "min_prior", min_prior),
               Feature(run_id, "source_quality", "max_prior", max_prior) >>

\* _stable_reference_time going straight to datetime.utcnow()
_stable_reference_time_utcnow(run_id, utcnow) == utcnow

\* utcnow is what datetime.utcnow() returns during the call
_stable_reference_time(run_id, utcnow) ==
    LET rows == EvidenceRows(run_id)
        retrieved == [i \in DOMAIN rows |-> rows[i].retrieved_at]
        created == [i \in DOMAIN rows |-> rows[i].created_at]
    IN IF RunExists(run_id) /\ runs[run_id].created_at # NoTime
       THEN runs[run_id].created_at
       ELSE IF Len(rows) > 0 /\ SeqMax(retrieved) # NoTime THEN SeqMax(retrieved)
       ELSE IF Len(rows) > 0 /\ SeqMax(created) # NoTime THEN SeqMax(created)
       ELSE utcnow

_temporal_features(run_id, utcnow) ==
    LET rows == EvidenceRows(run_id)
        published_times == [i \in DOMAIN rows |-> rows[i].published_at]
        total_count == Len(published_times)
        valid_times == Filter(published_times, {NoTime})
        missing_count == total_count - Len(valid_times)
        missing_timestamp_ratio ==
            IF total_count # 0 THEN Ratio(missing_count, total_count) ELSE 0
        ref_now == _stable_reference_time(run_id, utcnow)
        recency_scores ==
            [i \in 1..total_count |->
                IF i <= Len(valid_times)
                THEN ExpNeg(Max2(ref_now - valid_times[i], 0))
                ELSE DEFAULT_UNKNOWN_PRIOR]
        mean_recency ==
            IF Len(valid_times) > 0
            THEN SumSeq(recency_scores) \div Len(recency_scores)
            ELSE DEFAULT_UNKNOWN_PRIOR
        span_hours ==
            IF Len(valid_times) >= 2
            THEN Float((SeqMax(valid_times) - SeqMin(valid_times)) * 24)
            ELSE 0
    IN IF total_count = 0
       THEN << Feature(run_id, "temporal", "recency_score", DEFAULT_UNKNOWN_PRIOR),
               Feature(run_id, "temporal", "publication_span_hours", 0),
               Feature(run_id, "temporal", "missing_timestamp_ratio", 0) >>
       ELSE << Feature(run_id, "temporal", "missing_timestamp_ratio", missing_timestamp_ratio),
               Feature(run_id, "temporal", "recency_score", mean_recency),
               Feature(run_id, "temporal", "publication_span_hours", span_hours) >>

_corroboration_features(run_id) ==
    LET rows == EvidenceRows(run_id)
        \* GROUP BY domain, rows with a NULL domain ignored
        doms == {rows[i].domain : i \in DOMAIN rows} \ {None}
        cnt(d) == Cardinality({i \in DOMAIN rows : rows[i].domain = d})
        total == Cardinality({i \in DOMAIN rows : rows[i].domain # None})
        RECURSIVE Entropy(_)
        Entropy(D) ==
            IF D = {} THEN 0
            ELSE LET d == CHOOSE x \in D : TRUE
                 IN EntropyTerm(cnt(d), total) + Entropy(D \ {d})
        max_cnt == CHOOSE c \in {cnt(d) : d \in doms} : \A d \in doms : cnt(d) <= c
    IN IF Len(rows) = 0 \/ total = 0
       THEN << Feature(run_id, "corroboration", "domain_diversity", 0),
               Feature(run_id, "corroboration", "max_domain_concentration", 0) >>
       ELSE << Feature(run_id, "corroboration", "domain_diversity", Entropy(doms)),
               Feature(run_id, "corroboration", "max_domain_concentration",
                       Ratio(max_cnt, total)) >>

_text_similarity_features(run_id) ==
    LET rows == EvidenceRows(run_id)
        claim_tokens == tokenize(runs[run_id].claim_text)
        sims == [i \in DOMAIN rows |->
                    jaccard_similarity(claim_tokens,
                                       tokenize(EvidenceText(rows[i].title)))]
        asc == sorted(sims)
        sims_sorted == [i \in DOMAIN asc |-> asc[Len(asc) + 1 - i]]
        topk == SubSeq(sims_sorted, 1, Min2(3, Len(sims_sorted)))
    IN IF ~RunExists(run_id) \/ runs[run_id].claim_text = "" \/ Len(rows) = 0
       THEN << Feature(run_id, "text_similarity", "mean_jaccard", 0),
               Feature(run_id, "text_similarity", "max_jaccard", 0),
               Feature(run_id, "text_similarity", "topk_mean_jaccard", 0) >>
       ELSE << Feature(run_id, "text_similarity", "mean_jaccard",
                       SumSeq(sims_sorted) \div Len(sims_sorted)),
               Feature(run_id, "text_similarity", "max_jaccard", sims_sorted[1]),
               Feature(run_id, "text_similarity", "topk_mean_jaccard",
                       SumSeq(topk) \div Len(topk)) >>

_entity_overlap_features(run_id) ==
    LET rows == EvidenceRows(run_id)
        claim_entities == extract_entities(runs[run_id].claim_text)
        overlaps == [i \in DOMAIN rows |->
                        entity_overlap_ratio(claim_entities,
                            extract_entities(EvidenceText(rows[i].title)))]
    IN IF ~RunExists(run_id) \/ runs[run_id].claim_text = "" \/ Len(rows) = 0
       THEN << Feature(run_id, "entity_overlap", "entity_overlap_mean", 0),
               Feature(run_id, "entity_overlap", "entity_overlap_max", 0) >>
       ELSE << Feature(run_id, "entity_overlap", "entity_overlap_mean",
                       SumSeq(overlaps) \div Len(overlaps)),
               Feature(run_id, "entity_overlap", "entity_overlap_max",
                       SeqMax(overlaps)) >>

_consistency_features(run_id) ==
    LET rows == EvidenceRows(run_id)
        count == Cardinality({i \in DOMAIN rows :
                                contradiction_signal(EvidenceText(rows[i].title))})
    IN IF Len(rows) = 0
       THEN << Feature(run_id, "consistency", "contradiction_signal_ratio", 0) >>
       ELSE << Feature(run_id, "consistency", "contradiction_signal_ratio",
                       Ratio(count, Len(rows))) >>

extract_for_run(run_id) ==
    _volume_features(run_id) \o _source_quality_features(run_id)
        \o _temporal_features(run_id, clock) \o _corroboration_features(run_id)
        \o _text_similarity_features(run_id) \o _entity_overlap_features(run_id)
        \o _consistency_features(run_id)

-----------------------------------------------------------------------------
(* repos/feature_repo.py: each operator gives the features table after the call *)

FeatureRows(f, run_id) == IF run_id \in DOMAIN f THEN f[run_id] ELSE <<>>

insert_batch(f, run_id, rows) ==
    IF rows = <<>> THEN f
    ELSE [f EXCEPT ![run_id] = FeatureRows(f, run_id) \o rows]

\* delete_by_run that deletes nothing
delete_by_run_keeps(f, run_id) == f

\* delete_by_run whose DELETE has no WHERE clause
delete_by_run_all(f, run_id) == [r \in DOMAIN f |-> <<>>]

delete_by_run(f, run_id) ==
    IF run_id \in DOMAIN f THEN [f EXCEPT ![run_id] = <<>>] ELSE f

\* the count delete_by_run returns
delete_by_run_count(f, run_id) == Len(FeatureRows(f, run_id))

\* count_by_run that finds a row for every run
count_by_run_one(f, run_id) == 1

count_by_run(f, run_id) == Len(FeatureRows(f, run_id))

-----------------------------------------------------------------------------
(* services/scoring.py *)

\* 1 / (1 + math.exp(-x)) at x = -8.0, -7.75, ..., 8.0
SigmoidTable ==
    << 0, 0, 1, 1, 1, 1, 2, 2, 2, 3, 4, 5, 7, 9, 11, 14, 18, 23, 29, 37, 47, 60,
       76, 95, 119, 148, 182, 223, 269, 321, 378, 438, 500, 562, 622, 679, 731,
       777, 818, 852, 881, 905, 924, 940, 953, 963, 971, 977, 982, 986, 989, 991,
       993, 995, 996, 997, 998, 998, 998, 999, 999, 999, 999, 1000, 1000 >>

\* the sigmoid of x thousandths, interpolated between the table's points
Sigmoid(x) ==
    IF x <= -8000 THEN 0
    ELSE IF x >= 8000 THEN 1000
    ELSE LET i == ((x + 8000) \div 250) + 1
             frac == (x + 8000) % 250
         IN SigmoidTable[i] + (((SigmoidTable[i + 1] - SigmoidTable[i]) * frac) \div 250)

\* math.log(p / (1 - p)) at p = eps, 0.05, 0.10, ..., 0.95, 1 - eps (eps = 1e-6)
LogitTable ==
    << -13816, -2944, -2197, -1735, -1386, -1099, -847, -619, -405, -201, 0,
       201, 405, 619, 847, 1099, 1386, 1735, 2197, 2944, 13816 >>

\* min(max(p, eps), 1 - eps) and then the log-odds, interpolated
LogitOf(p) ==
    IF p <= 0 THEN LogitTable[1]
    ELSE IF p >= 1000 THEN LogitTable[21]
    ELSE LET i == (p \div 50) + 1
             frac == p % 50
         IN LogitTable[i] + (((LogitTable[i + 1] - LogitTable[i]) * frac) \div 50)

\* math.log1p(n) for n = 0, 1, ..., 8
Log1pTable == << 0, 693, 1099, 1386, 1609, 1792, 1946, 2079, 2197 >>

_log1p(value) ==
    LET v == Max2(0, value)
        n == Min2(v \div 1000, 8)
    IN Log1pTable[n + 1]

MODEL_VERSION == "baseline_v1"
CALIBRATION_OFFSET == 50
CALIBRATION_SCALE == 900

BaselineNames ==
    {"weighted_prior_mean", "domain_diversity", "recency_score", "unique_domains",
     "max_domain_concentration", "missing_timestamp_ratio", "unknown_source_ratio",
     "total_articles"}

DEFAULTS ==
    [n \in BaselineNames |->
        IF n \in {"weighted_prior_mean", "recency_score"} THEN 500 ELSE 0]

\* {name: float(value) for name, value in rows}: a later row of a name wins
FeatureMap(rows) ==
    [n \in {rows[i].feature_name : i \in DOMAIN rows} |->
        LET last == CHOOSE i \in DOMAIN rows :
                        /\ rows[i].feature_name = n
                        /\ \A j \in DOMAIN rows : rows[j].feature_name = n => j <= i
        IN rows[last].feature_value]

_fetch_features(run_id) == FeatureMap(FeatureRows(features, run_id))

\* {**DEFAULTS, **features}[name]
Merged(fm, name) == IF name \in DOMAIN fm THEN fm[name] ELSE DEFAULTS[name]

_raw_score(fm) ==
    LET v(n) == Merged(fm, n)
        scaled_total == _log1p(v("total_articles"))
        scaled_unique == _log1p(v("unique_domains"))
        weighted_sum ==
            ( 2000 * v("weighted_prior_mean")
            + 1000 * v("domain_diversity")
            + 750 * v("recency_score")
            + 250 * scaled_unique
            - 1500 * v("max_domain_concentration")
            - 500 * v("missing_timestamp_ratio")
            - 1000 * v("unknown_source_ratio")
            + 100 * scaled_total ) \div 1000
    IN Min2(Max2(Sigmoid(weighted_sum), 0), 1000)

_calibrate(raw_prob) ==
    Min2(Max2(CALIBRATION_OFFSET + ((CALIBRATION_SCALE * raw_prob) \div 1000), 0), 1000)

\* _label with the thresholds themselves excluded
_label_strict(score) ==
    IF score > 670 THEN "credible"
    ELSE IF score > 330 THEN "uncertain"
    ELSE "not_credible"

_label(score) ==
    IF score >= 670 THEN "credible"
    ELSE IF score >= 330 THEN "uncertain"
    ELSE "not_credible"

\* BaselineScorer.score_run; the explanation dict is left out
BaselineScoreRun(run_id) ==
    LET calibrated == _calibrate(_raw_score(_fetch_features(run_id)))
    IN [outcome |-> "ok", score |-> calibrated, label |-> _label(calibrated)]

-----------------------------------------------------------------------------
(* services/feature_vectorizer.py *)

BASE_FEATURE_GROUPS == {"volume", "source_quality", "temporal", "corroboration"}

EXPANDED_FEATURE_GROUPS ==
    BASE_FEATURE_GROUPS \cup {"text_similarity", "entity_overlap", "consistency"}

\* the group and feature names in ascending string order: ORDER BY compares
\* strings, and a string's place in this list is its rank
StringOrder ==
    << "consistency", "contradiction_signal_ratio", "corroboration",
       "domain_diversity", "entity_overlap", "entity_overlap_max",
       "entity_overlap_mean", "high_reliability_ratio",
       "max_domain_concentration", "max_jaccard", "max_prior", "mean_jaccard",
       "median_prior", "min_prior", "missing_timestamp_ratio",
       "publication_span_hours", "recency_score", "source_quality", "temporal",
       "text_similarity", "topk_mean_jaccard", "total_articles",
       "unique_domains", "unknown_source_ratio", "volume",
       "weighted_prior_mean" >>

StrRank(str) == CHOOSE i \in DOMAIN StringOrder : StringOrder[i] = str

\* every row of the features table
AllFeatureRows ==
    UNION {{features[r][i] : i \in DOMAIN features[r]} : r \in DOMAIN features}

\* canonical_feature_names without the filter on the schema's groups
canonical_feature_names_unfiltered(schema_version) ==
    LET pairs == {<<row.feature_group, row.feature_name>> : row \in AllFeatureRows}
        keys == SetToSeq({StrRank(pr[1]) * 100 + StrRank(pr[2]) : pr \in pairs})
    IN [i \in DOMAIN keys |-> StringOrder[keys[i] % 100]]

canonical_feature_names(schema_version) ==
    LET groups == IF schema_version = "v1" THEN BASE_FEATURE_GROUPS
                  ELSE EXPANDED_FEATURE_GROUPS
        \* SELECT DISTINCT feature_group, feature_name WHERE feature_group IN groups
        pairs == {<<row.feature_group, row.feature_name>> :
                     row \in {x \in AllFeatureRows : x.feature_group \in groups}}
        \* ORDER BY feature_group, feature_name
        keys == SetToSeq({StrRank(pr[1]) * 100 + StrRank(pr[2]) : pr \in pairs})
    IN [i \in DOMAIN keys |-> StringOrder[keys[i] % 100]]

\* vectorize_run that fills an absent name with the baseline scorer's default
vectorize_run_defaults(run_id, feature_names) ==
    LET feature_map == FeatureMap(FeatureRows(features, run_id))
    IN [i \in DOMAIN feature_names |->
           IF feature_names[i] \in DOMAIN feature_map
           THEN feature_map[feature_names[i]]
           ELSE IF feature_names[i] \in DOMAIN DEFAULTS
           THEN DEFAULTS[feature_names[i]] ELSE 0]

vectorize_run(run_id, feature_names) ==
    LET feature_map == FeatureMap(FeatureRows(features, run_id))
    IN [i \in DOMAIN feature_names |->
           IF feature_names[i] \in DOMAIN feature_map
           THEN feature_map[feature_names[i]] ELSE 0]

-----------------------------------------------------------------------------
(* repos/trained_model_repo.py *)

RECURSIVE DropModel(_, _)
\* DELETE FROM trained_models WHERE model_id = :model_id
DropModel(tbl, model_id) ==
    IF tbl = <<>> THEN <<>>
    ELSE IF Head(tbl).model_id = model_id THEN DropModel(Tail(tbl), model_id)
    ELSE <<Head(tbl)>> \o DropModel(Tail(tbl), model_id)

\* upsert without the DELETE
upsert_append(tbl, model) == Append(tbl, model)

\* TrainedModelRepository.upsert: the table after the commit
upsert(tbl, model) == Append(DropModel(tbl, model.model_id), model)

ModelRows(tbl, model_id) == {i \in DOMAIN tbl : tbl[i].model_id = model_id}

NoModel == [model_id |-> None]

\* TrainedModelRepository.get: .first() of the rows with this model_id
get(tbl, model_id) ==
    IF ModelRows(tbl, model_id) = {} THEN NoModel
    ELSE tbl[CHOOSE i \in ModelRows(tbl, model_id) :
                 \A j \in ModelRows(tbl, model_id) : i <= j]

-----------------------------------------------------------------------------
(* services/scoring.py: TrainedModelScorer *)

\* math.exp raises OverflowError above this argument (709.78)
ExpOverflow == (709 * 1000) + 782

WeightOf(model, name) ==
    IF name \in DOMAIN model.weights THEN model.weights[name] ELSE 0

\* values = [float(feature_map.get(name, 0.0)) for name in feature_names]
TrainedValues(run_id, model) ==
    LET feature_names == model.feature_names
        feature_map == FeatureMap(FeatureRows(features, run_id))
    IN [i \in DOMAIN feature_names |->
           IF feature_names[i] \in DOMAIN feature_map
           THEN feature_map[feature_names[i]] ELSE 0]

\* the trained scorer's label with the lower threshold itself excluded
TrainedLabel_strict(calibrated, t_lo, t_hi) ==
    IF calibrated >= t_hi THEN "credible"
    ELSE IF calibrated < t_lo THEN "not_credible"
    ELSE "uncertain"

\* if calibrated >= t_hi ... elif calibrated <= t_lo ... else ...
TrainedLabel(calibrated, t_lo, t_hi) ==
    IF calibrated >= t_hi THEN "credible"
    ELSE IF calibrated <= t_lo THEN "not_credible"
    ELSE "uncertain"

TrainedScoreRun(run_id, model_id) ==
    LET model == get(models, model_id)
        feature_names == model.feature_names
        values == TrainedValues(run_id, model)
        weights == [i \in DOMAIN feature_names |-> WeightOf(model, feature_names[i])]
        logit == WeightOf(model, "intercept")
                    + SumSeq([i \in DOMAIN feature_names |->
                                 (weights[i] * values[i]) \div 1000])
        raw_prob == Sigmoid(Max2(Min2(logit, 50000), -50000))
        platt == model.calibration.method = "platt"
        z == ((model.calibration.a * LogitOf(raw_prob)) \div 1000) + model.calibration.b
        calibrated == IF platt THEN Sigmoid(z) ELSE raw_prob
        t_lo == model.thresholds.t_lo
        t_hi == model.thresholds.t_hi
        label == TrainedLabel(calibrated, t_lo, t_hi)
    IN IF model = NoModel
       THEN [outcome |-> "ValueError", message |-> "Model {model_id} not found"]
       ELSE IF platt /\ (0 - z) > ExpOverflow
       THEN [outcome |-> "OverflowError", message |-> "math range error"]
       ELSE [outcome |-> "ok", score |-> calibrated, label |-> label]

-----------------------------------------------------------------------------
(* repos/score_repo.py *)

MaxScoreIdOf(tbl) ==
    IF tbl = {} THEN 0
    ELSE CHOOSE m \in {row.score_id : row \in tbl} : \A row \in tbl : row.score_id <= m

\* a DELETE that matches no row
DeleteScore_none(tbl, run_id, model_version) == tbl

DeleteScore(tbl, run_id, model_version) ==
    {row \in tbl : ~(row.run_id = run_id /\ row.model_version = model_version)}

\* ScoreRepository.upsert_score: the table after the commit
upsert_score(tbl, run_id, model_version, score, label) ==
    LET kept == DeleteScore(tbl, run_id, model_version)
        next_id == MaxScoreIdOf(kept) + 1
    IN kept \cup {[score_id |-> next_id, run_id |-> run_id,
                   model_version |-> model_version, score |-> score,
                   label |-> label]}

-----------------------------------------------------------------------------
(* repos/evidence_repo.py, services/pipeline_evidence.py *)

\* datetime.strptime(value, "%Y%m%d%H%M%S") in days since 2025-01-01, None for a
\* missing or malformed value
_parse_gdelt_seendate(value) ==
    CASE value = "20250101000000" -> 0
      [] value = "20250102000000" -> 1
      [] OTHER                    -> NoTime

\* EvidenceRepo.upsert_from_gdelt: the evidence table after the call
upsert_from_gdelt(ev, run_id, a, now) ==
    LET domain == IF a.domain = None \/ a.domain = "" THEN "" ELSE a.domain
        published_at == _parse_gdelt_seendate(a.seendate)
    IN IF ev[a.url] # NoRow
       THEN [ev EXCEPT ![a.url] =
                [run_id |-> run_id, domain |-> domain, title |-> a.title,
                 published_at |-> published_at, retrieved_at |-> now,
                 created_at |-> ev[a.url].created_at]]
       ELSE [ev EXCEPT ![a.url] =
                [run_id |-> run_id, domain |-> domain, title |-> a.title,
                 published_at |-> published_at, retrieved_at |-> now,
                 created_at |-> now]]

RECURSIVE UpsertAll(_, _, _, _)
\* for a in articles: evidence_repo.upsert_from_gdelt(...)
UpsertAll(ev, run_id, urls, now) ==
    IF urls = <<>> THEN ev
    ELSE UpsertAll(upsert_from_gdelt(ev, run_id, GdeltArticle(Head(urls)), now),
                   run_id, Tail(urls), now)

\* the article lists a fetch can return: any list of at most MaxUrls articles
ArticleLists == UNION {[1..n -> Urls] : n \in 0..MaxUrls}

\* what a call returned (outcome "ok") or raised; deleted is the number of rows
\* the DELETE the call made removed, returned the artifact train_and_register
\* hands back
Ret(op, run_id, model_version, outcome, message, value, label) ==
    [op |-> op, run_id |-> run_id, model_version |-> model_version,
     outcome |-> outcome, message |-> message, value |-> value, label |-> label,
     deleted |-> 0, returned |-> NoModel]

create_run(claim_text) ==
    [created_at |-> clock, claim_text |-> claim_text, status |-> "started",
     error_text |-> None]

FetchAndStoreEvidence(claim_text, urls) ==
    /\ Len(runs) < MaxRuns
    /\ LET run_id == Len(runs) + 1
       IN /\ runs' = Append(runs, create_run(claim_text))
          /\ evidence' = UpsertAll(evidence, run_id, urls, clock)
          /\ ret' = Ret("fetch_and_store_evidence", run_id, "", "ok", "", Len(urls), "")
    /\ UNCHANGED <<clock, priors, features, scores, models, web>>

\* SourcePriorsRepo.upsert_many with one record
UpsertPrior(domain, prior_score) ==
    /\ priors[domain] # prior_score
    /\ priors' = [priors EXCEPT ![domain] = prior_score]
    /\ ret' = Ret("upsert_many", 0, "", "ok", "", 1, "")
    /\ UNCHANGED <<clock, runs, evidence, features, scores, models, web>>

Tick ==
    /\ clock < MaxClock
    /\ clock' = clock + 1
    /\ UNCHANGED <<runs, evidence, priors, features, scores, models, ret, web>>

-----------------------------------------------------------------------------
(* services/feature_engineering.py *)

\* compute_features without the check that the run exists
ComputeFeatures_unchecked(run_id) ==
    /\ LET rows == extract_for_run(run_id)
       IN /\ features' = insert_batch(delete_by_run(features, run_id), run_id, rows)
          /\ ret' = [Ret("compute_features", run_id, "", "ok", "", Len(rows), "")
                        EXCEPT !.deleted = delete_by_run_count(features, run_id)]
    /\ UNCHANGED <<clock, runs, evidence, priors, scores, models, web>>

ComputeFeatures(run_id) ==
    /\ IF ~RunExists(run_id)
       THEN /\ ret' = Ret("compute_features", run_id, "", "ValueError",
                          "Run {run_id} does not exist", 0, "")
            /\ UNCHANGED features
       ELSE LET rows == extract_for_run(run_id)
            IN /\ features' = insert_batch(delete_by_run(features, run_id), run_id, rows)
               /\ ret' = [Ret("compute_features", run_id, "", "ok", "", Len(rows), "")
                             EXCEPT !.deleted = delete_by_run_count(features, run_id)]
    /\ UNCHANGED <<clock, runs, evidence, priors, scores, models, web>>

\* a compute_features whose failure takes the purge back with it
ComputeFeaturesRaises_restored(run_id) ==
    /\ RunExists(run_id)
    /\ ret' = [Ret("compute_features", run_id, "", "raised",
                   "extract_for_run or insert_batch raised", 0, "")
                  EXCEPT !.deleted = delete_by_run_count(features, run_id)]
    /\ ret' # ret
    /\ UNCHANGED <<clock, runs, evidence, priors, features, scores, models, web>>

\* compute_features of a stored run in which extract_for_run or insert_batch
\* raises: delete_by_run has committed, nothing is inserted
ComputeFeaturesRaises(run_id) ==
    /\ RunExists(run_id)
    /\ features' = delete_by_run(features, run_id)
    /\ ret' = [Ret("compute_features", run_id, "", "raised",
                   "extract_for_run or insert_batch raised", 0, "")
                  EXCEPT !.deleted = delete_by_run_count(features, run_id)]
    /\ ret' # ret
    /\ UNCHANGED <<clock, runs, evidence, priors, scores, models, web>>

\* FeatureRepository.delete_by_run called on its own
DeleteByRun(run_id) ==
    /\ features' = delete_by_run(features, run_id)
    /\ ret' = [Ret("delete_by_run", run_id, "", "ok", "",
                   delete_by_run_count(features, run_id), "")
                  EXCEPT !.deleted = delete_by_run_count(features, run_id)]
    /\ UNCHANGED <<clock, runs, evidence, priors, scores, models, web>>

\* the scorer compute_score_for_run picks for a model version
ScoreRun(run_id, model_version) ==
    IF model_version = MODEL_VERSION THEN BaselineScoreRun(run_id)
    ELSE TrainedScoreRun(run_id, model_version)

ComputeScoreForRun(run_id, model_version) ==
    /\ IF ~RunExists(run_id)
       THEN /\ ret' = Ret("compute_score_for_run", run_id, model_version, "ValueError",
                          "Run {run_id} does not exist", 0, "")
            /\ UNCHANGED scores
       ELSE IF count_by_run(features, run_id) = 0
       THEN /\ ret' = Ret("compute_score_for_run", run_id, model_version, "ValueError",
                          "Run {run_id} has no computed features", 0, "")
            /\ UNCHANGED scores
       ELSE LET result == ScoreRun(run_id, model_version)
            IN IF result.outcome # "ok"
               THEN /\ ret' = Ret("compute_score_for_run", run_id, model_version,
                                  result.outcome, result.message, 0, "")
                    /\ UNCHANGED scores
               ELSE /\ MaxScoreIdOf(DeleteScore(scores, run_id, model_version)) < MaxScoreId
                    /\ scores' = upsert_score(scores, run_id, model_version,
                                              result.score, result.label)
                    /\ ret' = [Ret("compute_score_for_run", run_id, model_version, "ok",
                                   "", result.score, result.label)
                                  EXCEPT !.deleted =
                                      Cardinality(scores \ DeleteScore(scores, run_id,
                                                                       model_version))]
    /\ UNCHANGED <<clock, runs, evidence, priors, features, models, web>>

-----------------------------------------------------------------------------
(* services/model_training.py: train_and_register.  Gradient descent, Platt *)
(* fitting and threshold tuning are left open: the fitted numbers are any   *)
(* of a few the trainer could produce.                                      *)

ModelIds == {"lr_v1", "lr_v2"}
CallModelIds == {MODEL_VERSION, "lr_v1"}
SchemaVersions == {"v1", "v2"}
FittedWeights == {1000, -2000}
NoCalibration == [method |-> None, a |-> 0, b |-> 0]
FittedCalibrations == {NoCalibration, [method |-> "platt", a |-> 2000, b |-> 500]}
FittedThresholds == {[t_lo |-> 330, t_hi |-> 670]}

TrainedModel(model_id, schema_version, w, calibration, thresholds) ==
    LET feature_names == canonical_feature_names(schema_version)
        names == SeqToSet(feature_names) \cup {"intercept"}
    IN [model_id |-> model_id, feature_schema_version |-> schema_version,
        feature_names |-> feature_names,
        weights |-> [n \in names |-> IF n = "intercept" THEN 0 ELSE w],
        thresholds |-> thresholds, calibration |-> calibration]

TrainAndRegister(model_id, schema_version, w, calibration, thresholds) ==
    LET model == TrainedModel(model_id, schema_version, w, calibration, thresholds)
    IN /\ models' = upsert(models, model)
       /\ ret' = [Ret("train_and_register", 0, model_id, "ok", "", 0, "")
                     EXCEPT !.deleted = Cardinality(ModelRows(models, model_id)),
                            !.returned = model]
       /\ UNCHANGED <<clock, runs, evidence, priors, features, scores, web>>

-----------------------------------------------------------------------------
(* api/rate_limit.py, api/main.py: the rate limiter in front of every route *)

limit_per_min == 2
MaxHalfMinutes == 3
MaxCallsPerMinute == 4

ClientKeys == {"10.0.0.1", "unknown"}
Minutes == 0..((MaxHalfMinutes * 30) \div 60)

\* buckets.get(key) of a key never seen
NoBucket == <<>>

\* RateLimiter.allow that refuses only above the limit
allow_above(b, key, t) ==
    LET minute == t \div 60
        fresh == b[key] = NoBucket \/ b[key][2] # minute
        count == IF fresh THEN 0 ELSE b[key][1]
    IN IF count > limit_per_min
       THEN [buckets |-> [b EXCEPT ![key] = <<count, minute>>], result |-> FALSE]
       ELSE [buckets |-> [b EXCEPT ![key] = <<count + 1, minute>>], result |-> TRUE]

\* RateLimiter.allow that keeps the count when the minute bucket changes
allow_carried(b, key, t) ==
    LET minute == t \div 60
        count == IF b[key] = NoBucket THEN 0 ELSE b[key][1]
    IN IF count >= limit_per_min
       THEN [buckets |-> [b EXCEPT ![key] = <<count, minute>>], result |-> FALSE]
       ELSE [buckets |-> [b EXCEPT ![key] = <<count + 1, minute>>], result |-> TRUE]

\* RateLimiter.allow: the buckets after the call, and what it returns
allow(b, key, t) ==
    LET minute == t \div 60
        fresh == b[key] = NoBucket \/ b[key][2] # minute
        count == IF fresh THEN 0 ELSE b[key][1]
    IN IF count >= limit_per_min
       THEN [buckets |-> [b EXCEPT ![key] = <<count, minute>>], result |-> FALSE]
       ELSE [buckets |-> [b EXCEPT ![key] = <<count + 1, minute>>], result |-> TRUE]

\* rate_limit_middleware on a request of this client: 429 when allow refuses,
\* else the route's handler runs
RateLimitMiddleware(key) ==
    LET minute == time_s \div 60
        a == allow(buckets, key, time_s)
    IN /\ seen[key][minute].calls < MaxCallsPerMinute
       /\ buckets' = a.buckets
       /\ seen' = [seen EXCEPT ![key][minute] =
                      [calls |-> @.calls + 1,
                       allowed |-> @.allowed + (IF a.result THEN 1 ELSE 0)]]
       /\ ret' = [Ret("rate_limit_middleware", 0, "", IF a.result THEN "call_next"
                                                     ELSE "HTTP 429",
                      IF a.result THEN "" ELSE "Rate limit exceeded",
                      IF a.result THEN 1 ELSE 0, "")
                     EXCEPT !.returned = [key |-> key, minute |-> minute]]
       /\ UNCHANGED <<clock, runs, evidence, priors, features, scores, models, time_s,
                      fetcher>>

\* time passes: time_fn never goes back
TimePasses ==
    /\ time_s < MaxHalfMinutes * 30
    /\ time_s' = time_s + 30
    /\ UNCHANGED <<clock, runs, evidence, priors, features, scores, models, ret,
                   buckets, seen, fetcher>>

-----------------------------------------------------------------------------
(* api/deps.py: the evidence fetcher with retries *)

MaxFetches == 3

\* the fetch_gdelt_articles call that has not returned anything yet
NotFetched == <<0>>

\* pc is where _fetch stands: "idle" before any call, "try" at the top of the
\* while loop, "returned" or "raised" once it has ended; calls counts the calls
\* of fetch_gdelt_articles, sleeps lists the time.sleep arguments in thousandths
\* of a second, fetched is what the successful call returned, n counts the
\* calls of _fetch
NoFetch ==
    [pc |-> "idle", attempts |-> 0, backoff |-> 0, calls |-> 0, sleeps |-> <<>>,
     fetched |-> NotFetched, result |-> <<>>, n |-> 0]

\* attempts = 0; backoff = 0.5
_fetch_start(f) ==
    [pc |-> "try", attempts |-> 0, backoff |-> 500, calls |-> 0, sleeps |-> <<>>,
     fetched |-> NotFetched, result |-> <<>>, n |-> f.n + 1]

\* the except branch giving up one failure later
_fetch_except_late(f) ==
    LET attempts == f.attempts + 1
    IN IF attempts > 3
       THEN [f EXCEPT !.attempts = attempts, !.pc = "returned", !.result = <<>>]
       ELSE [f EXCEPT !.attempts = attempts, !.sleeps = Append(@, f.backoff),
                      !.backoff = @ * 2]

\* except Exception: count the failure, give up with [] after the third, else
\* sleep and double the backoff
_fetch_except(f) ==
    LET attempts == f.attempts + 1
    IN IF attempts > 2
       THEN [f EXCEPT !.attempts = attempts, !.pc = "returned", !.result = <<>>]
       ELSE [f EXCEPT !.attempts = attempts, !.sleeps = Append(@, f.backoff),
                      !.backoff = @ * 2]

\* the dict built from one GdeltArticle, which has no attribute raw
ArticleDict(a) == [url |-> a, raw |-> None]

\* evidence_fetcher(query_text, max_records) is called
EvidenceFetcherCall ==
    /\ fetcher.pc # "try"
    /\ fetcher.n < MaxFetches
    /\ fetcher' = _fetch_start(fetcher)
    /\ UNCHANGED <<clock, runs, evidence, priors, features, scores, models, ret,
                   buckets, time_s, seen>>

\* one pass of the loop in which fetch_gdelt_articles returns: break, and the
\* list of dicts is returned
FetchReturns(articles) ==
    /\ fetcher.pc = "try"
    /\ fetcher' = [fetcher EXCEPT !.calls = @ + 1, !.fetched = articles,
                       !.pc = "returned",
                       !.result = [i \in 1..Len(articles) |-> ArticleDict(articles[i])]]
    /\ UNCHANGED <<clock, runs, evidence, priors, features, scores, models, ret,
                   buckets, time_s, seen>>

\* one pass of the loop in which fetch_gdelt_articles raises
FetchRaises ==
    /\ fetcher.pc = "try"
    /\ fetcher' = _fetch_except([fetcher EXCEPT !.calls = @ + 1])
    /\ UNCHANGED <<clock, runs, evidence, priors, features, scores, models, ret,
                   buckets, time_s, seen>>

\* one pass of the loop in which float(os.getenv("EVIDENCE_TIMEOUT_S", ...))
\* raises ValueError before fetch_gdelt_articles is called
TimeoutUnreadable ==
    /\ fetcher.pc = "try"
    /\ fetcher' = _fetch_except(fetcher)
    /\ UNCHANGED <<clock, runs, evidence, priors, features, scores, models, ret,
                   buckets, time_s, seen>>

FetchLoop ==
    \/ \E articles \in ArticleLists : FetchReturns(articles)
    \/ FetchRaises
    \/ TimeoutUnreadable

\* the web layer when the application starts
WebInit ==
    /\ buckets = [k \in ClientKeys |-> NoBucket]
    /\ time_s = 0
    /\ seen = [k \in ClientKeys |-> [m \in Minutes |-> [calls |-> 0, allowed |-> 0]]]
    /\ fetcher = NoFetch

-----------------------------------------------------------------------------
(* The pipeline over an initially empty database *)

Init ==
    /\ clock = 0
    /\ runs = <<>>
    /\ evidence = [u \in Urls |-> NoRow]
    /\ priors = [d \in PriorDomains |-> NoPrior]
    /\ features = [r \in CallRunIds |-> <<>>]
    /\ scores = {}
    /\ models = <<>>
    /\ ret = Ret("init", 0, "", "ok", "", 0, "")
    /\ WebInit

Next ==
    \/ Tick
    \/ \E c \in ClaimTexts, urls \in ArticleLists : FetchAndStoreEvidence(c, urls)
    \/ \E d \in PriorDomains, p \in PriorScores : UpsertPrior(d, p)
    \/ \E r \in CallRunIds : ComputeFeatures(r)
    \/ \E r \in CallRunIds : DeleteByRun(r)

Spec == Init /\ [][Next]_vars

-----------------------------------------------------------------------------
(* Scoring: runs of at most one article each, one uncalibrated fit *)

\* a fetch that returns at most one article
ShortArticleLists == {urls \in ArticleLists : Len(urls) <= 1}

NextScore ==
    \/ \E c \in ClaimTexts, urls \in ShortArticleLists : FetchAndStoreEvidence(c, urls)
    \/ \E r \in CallRunIds : ComputeFeatures(r)
    \/ \E r \in CallRunIds, m \in CallModelIds : ComputeScoreForRun(r, m)
    \/ \E t \in FittedThresholds : TrainAndRegister("lr_v1", "v1", 1000, NoCalibration, t)

SpecScore == Init /\ [][NextScore]_vars

-----------------------------------------------------------------------------
(* The model registry: every fit, under either model id *)

NextRegistry ==
    \/ \E c \in ClaimTexts, urls \in ShortArticleLists : FetchAndStoreEvidence(c, urls)
    \/ \E r \in RunIds : ComputeFeatures(r)
    \/ \E m \in ModelIds, w \in FittedWeights, c \in FittedCalibrations,
          t \in FittedThresholds :
            TrainAndRegister(m, "v1", w, c, t)

SpecRegistry == Init /\ [][NextRegistry]_vars

-----------------------------------------------------------------------------
(* The trained scorer: one model id, with tuned thresholds *)

\* thresholds tune_thresholds can return: the default pair, or two of the
\* validation probabilities
TunedThresholds ==
    FittedThresholds \cup {[t_lo |-> 500, t_hi |-> 731], [t_lo |-> 269, t_hi |-> 500]}

NextTrained ==
    \/ \E c \in ClaimTexts, urls \in ShortArticleLists : FetchAndStoreEvidence(c, urls)
    \/ \E r \in RunIds : ComputeFeatures(r)
    \/ \E r \in RunIds : ComputeScoreForRun(r, "lr_v1")
    \/ \E t \in TunedThresholds :
            TrainAndRegister("lr_v1", "v1", 1000, NoCalibration, t)

SpecTrained == Init /\ [][NextTrained]_vars

-----------------------------------------------------------------------------
(* BaselineScorer._label on its own: a score is drawn, then labelled *)

ScoreGrid == (0 - 50)..1050

InitLabel ==
    /\ clock = 0
    /\ runs = <<>>
    /\ evidence = [u \in Urls |-> NoRow]
    /\ priors = [d \in PriorDomains |-> NoPrior]
    /\ features = [r \in CallRunIds |-> <<>>]
    /\ scores = {}
    /\ models = <<>>
    /\ \E s \in ScoreGrid : ret = Ret("_label", 0, "", "pending", "", s, "")
    /\ WebInit

ApplyLabel ==
    /\ ret.op = "_label" /\ ret.outcome = "pending"
    /\ ret' = [ret EXCEPT !.outcome = "ok", !.label = _label(ret.value)]
    /\ UNCHANGED <<clock, runs, evidence, priors, features, scores, models, web>>

NextLabel == ApplyLabel

SpecLabel == InitLabel /\ [][NextLabel]_vars

-----------------------------------------------------------------------------
(* services/model_training.py: load_dataset *)

MaxCsvRows == 2

\* the label cells a CSV row can hold
LabelTexts ==
    {"1", "0", "credible", "not_credible", "uncertain", " Credible ", "NOT_CREDIBLE",
     " 0", "maybe", "", "1.0", "2", "-1", "01"}

\* raw.strip().lower()
StripLower(raw) ==
    CASE raw = " Credible "   -> "credible"
      [] raw = "NOT_CREDIBLE" -> "not_credible"
      [] raw = " 0"           -> "0"
      [] OTHER                -> raw

\* int(value): <<n>> for the integer n, <<>> where int raises ValueError
IntOf(value) ==
    CASE value = "1"  -> <<1>>
      [] value = "0"  -> <<0>>
      [] value = "2"  -> <<2>>
      [] value = "-1" -> <<0 - 1>>
      [] value = "01" -> <<1>>
      [] OTHER        -> <<>>

\* _label_to_int: <<label>>, or <<>> for None
_label_to_int(raw) ==
    LET value == StripLower(raw)
    IN IF value \in {"1", "credible"} THEN <<1>>
       ELSE IF value \in {"0", "not_credible"} THEN <<0>>
       ELSE IF value \in {"uncertain"} THEN <<>>
       ELSE IntOf(value)

\* ModelTrainer.load_dataset over the label cells of a CSV, the run_id of a row
\* being its line number
load_dataset(csv) ==
    LET parsed == [i \in DOMAIN csv |-> [run_id |-> i, label |-> _label_to_int(csv[i])]]
        kept == SelectSeq(parsed, LAMBDA row : row.label # <<>>)
    IN [i \in DOMAIN kept |-> [run_id |-> kept[i].run_id, label |-> kept[i].label[1]]]

CsvFiles == UNION {[1..n -> LabelTexts] : n \in 0..MaxCsvRows}

\* a pure function called once on an input: the call is pending, then returned
PureInit(op, inputs) ==
    /\ clock = 0
    /\ runs = <<>>
    /\ evidence = [u \in Urls |-> NoRow]
    /\ priors = [d \in PriorDomains |-> NoPrior]
    /\ features = [r \in CallRunIds |-> <<>>]
    /\ scores = {}
    /\ models = <<>>
    /\ \E x \in inputs : ret = Ret(op, 0, "", "pending", "", x, "")
    /\ WebInit

InitDataset == PureInit("load_dataset", CsvFiles)

LoadDataset ==
    /\ ret.op = "load_dataset" /\ ret.outcome = "pending"
    /\ ret' = [ret EXCEPT !.outcome = "ok", !.returned = load_dataset(ret.value)]
    /\ UNCHANGED <<clock, runs, evidence, priors, features, scores, models, web>>

NextDataset == LoadDataset

SpecDataset == InitDataset /\ [][NextDataset]_vars

-----------------------------------------------------------------------------
(* services/evaluation.py: compute_metrics *)

MaxEvalRows == 4

NoAuroc == 0 - 1

\* a division by zero reached: the call raises ZeroDivisionError
ZeroDivision == 0 - 2

\* the (score, predicted_label) pairs a scorer hands back
ScoredAs ==
    {<<1000, "credible">>, <<200, "not_credible">>, <<400, "uncertain">>,
     <<600, "credible">>}

EvalRow(label, score, predicted_label) ==
    [label |-> label, score |-> score, predicted_label |-> predicted_label]

EvalRows == {EvalRow(y, sp[1], sp[2]) : y \in {0, 1}, sp \in ScoredAs}

EvalRowLists == UNION {[1..n -> EvalRows] : n \in 0..MaxEvalRows}

\* _predicted_to_binary with only not_credible negative
_predicted_to_binary_lenient(predicted_label) ==
    IF predicted_label = "not_credible" THEN 0 ELSE 1

_predicted_to_binary(predicted_label) ==
    IF predicted_label = "credible" THEN 1 ELSE 0

_safe_div(num, denom) == IF denom # 0 THEN (num * 1000) \div denom ELSE 0

\* the area under the ROC curve by the trapezoid rule, in thousandths; the
\* curve gets a point where the score changes, walking the scores downwards
RocArea(labels, score_list) ==
    LET pos == SumSeq(labels)
        neg == Len(labels) - pos
        cuts == SetToSeq({score_list[i] : i \in DOMAIN score_list})
        K == Len(cuts)
        \* true and false positives among the rows scoring at least cuts[k]
        tpAt(k) == Cardinality({i \in DOMAIN score_list : score_list[i] >= cuts[k] /\ labels[i] = 1})
        fpAt(k) == Cardinality({i \in DOMAIN score_list : score_list[i] >= cuts[k] /\ labels[i] # 1})
        \* point j of the curve, j = 0..K: after the j highest score_list
        tp(j) == IF j = 0 THEN 0 ELSE tpAt(K + 1 - j)
        fp(j) == IF j = 0 THEN 0 ELSE fpAt(K + 1 - j)
        twice == SumSeq([j \in 1..K |-> (fp(j) - fp(j - 1)) * (tp(j) + tp(j - 1))])
    IN IF pos = 0 \/ neg = 0 THEN ZeroDivision
       ELSE (twice * 1000) \div (2 * pos * neg)

\* _compute_auroc without its checks on the classes present
_compute_auroc_unguarded(labels, score_list) == RocArea(labels, score_list)

_compute_auroc(labels, score_list) ==
    IF labels = <<>> THEN NoAuroc
    ELSE IF Cardinality(SeqToSet(labels)) < 2 THEN NoAuroc
    ELSE IF SumSeq(labels) = 0 \/ Len(labels) - SumSeq(labels) = 0 THEN NoAuroc
    ELSE RocArea(labels, score_list)

_calibration_bins(score_list, labels, bins) ==
    IF bins <= 0 THEN <<>>
    ELSE [b \in 1..bins |->
            LET i == b - 1
                low == (i * 1000) \div bins
                high == ((i + 1) * 1000) \div bins
                idx == {j \in DOMAIN score_list :
                          /\ low <= score_list[j]
                          /\ IF i = bins - 1 THEN score_list[j] <= high ELSE score_list[j] < high}
                n == Cardinality(idx)
                picked == SetToSeq(idx)
            IN IF idx = {}
               THEN [bin |-> i, low |-> low, high |-> high, count |-> 0,
                     avg_pred |-> 0, avg_obs |-> 0]
               ELSE [bin |-> i, low |-> low, high |-> high, count |-> n,
                     avg_pred |-> SumSeq([k \in DOMAIN picked |-> score_list[picked[k]]]) \div n,
                     avg_obs |-> (SumSeq([k \in DOMAIN picked |-> labels[picked[k]]]) * 1000)
                                    \div n]]

compute_metrics(rows) ==
    LET labels == [i \in DOMAIN rows |-> rows[i].label]
        scores_ == [i \in DOMAIN rows |-> rows[i].score]
        preds == [i \in DOMAIN rows |-> _predicted_to_binary(rows[i].predicted_label)]
        count(y, q) == Cardinality({i \in DOMAIN rows : labels[i] = y /\ preds[i] = q})
        tp == count(1, 1)
        tn == count(0, 0)
        fp == count(0, 1)
        fn == count(1, 0)
        precision == _safe_div(tp, tp + fp)
        recall == _safe_div(tp, tp + fn)
        f1 == _safe_div((2 * precision * recall) \div 1000, precision + recall)
        accuracy == IF labels # <<>> THEN _safe_div(tp + tn, Len(labels)) ELSE 0
        brier == IF labels # <<>>
                 THEN SumSeq([i \in DOMAIN rows |->
                                 ((scores_[i] - 1000 * labels[i])
                                    * (scores_[i] - 1000 * labels[i])) \div 1000])
                        \div Len(labels)
                 ELSE 0
    IN [n |-> Len(labels), accuracy |-> accuracy, precision |-> precision,
        recall |-> recall, f1 |-> f1, tp |-> tp, fp |-> fp, tn |-> tn, fn |-> fn,
        brier |-> brier, auroc |-> _compute_auroc(labels, scores_),
        calibration_bins |-> _calibration_bins(scores_, labels, 5)]

InitMetrics == PureInit("compute_metrics", EvalRowLists)

ComputeMetrics ==
    /\ ret.op = "compute_metrics" /\ ret.outcome = "pending"
    /\ LET metrics == compute_metrics(ret.value)
       IN ret' = [ret EXCEPT !.outcome = IF metrics.auroc = ZeroDivision
                                         THEN "ZeroDivisionError" ELSE "ok",
                             !.returned = metrics]
    /\ UNCHANGED <<clock, runs, evidence, priors, features, scores, models, web>>

NextMetrics == ComputeMetrics

SpecMetrics == InitMetrics /\ [][NextMetrics]_vars

-----------------------------------------------------------------------------
(* services/model_training.py: tune_thresholds on validation probabilities. *)
(* Probabilities are in thousandths.  The F1 the code computes is a double: *)
(* it is kept as <<numerator, denominator, rounding>>, the exact fraction   *)
(* 2tp / (2tp + fp + fn) and the distance, in units in the last place, of   *)
(* the double that 2 * precision * recall / (precision + recall) evaluates  *)
(* to from the double nearest to that fraction.  Fractions of counts this   *)
(* small differ by far more than a rounding, so two doubles compare by the  *)
(* fractions first and by the rounding when the fractions are equal.        *)

MaxValRows == 3

ProbGrid == {100, 200, 800, 900}
ValLabels == {0, 1, 2}

ValidationSets ==
    UNION {{[probs |-> pv, y |-> yv] : pv \in [1..n -> ProbGrid], yv \in [1..n -> ValLabels]}
           : n \in 0..MaxValRows}

DefaultThresholds == <<330, 670>>

\* the (tp, fp, fn) of at most 8 rows for which the double computed for F1 is
\* one unit in the last place above the double nearest to 2tp / (2tp + fp + fn)
F1RoundedUp ==
    {<<1, 0, 4>>, <<1, 1, 4>>, <<1, 1, 6>>, <<1, 2, 3>>, <<1, 3, 2>>, <<1, 3, 4>>,
     <<1, 4, 0>>, <<1, 4, 1>>, <<1, 4, 3>>, <<1, 6, 1>>, <<2, 0, 3>>, <<2, 0, 5>>,
     <<2, 1, 2>>, <<2, 2, 1>>, <<2, 2, 3>>, <<2, 3, 0>>, <<2, 3, 2>>, <<2, 3, 3>>,
     <<2, 5, 0>>, <<4, 0, 1>>, <<4, 1, 0>>, <<4, 1, 1>>}

\* and those for which it is one unit below
F1RoundedDown ==
    {<<3, 0, 2>>, <<3, 1, 2>>, <<3, 2, 0>>, <<3, 2, 1>>, <<4, 1, 2>>, <<4, 2, 1>>,
     <<5, 0, 2>>, <<5, 1, 2>>, <<5, 2, 0>>, <<5, 2, 1>>, <<6, 0, 1>>, <<6, 1, 0>>}

F1Rounding(tp, fp, fn) ==
    IF <<tp, fp, fn>> \in F1RoundedUp THEN 1
    ELSE IF <<tp, fp, fn>> \in F1RoundedDown THEN 0 - 1 ELSE 0

\* F1 of predicting 1 exactly where probs_val >= t_hi
ThresholdF1(probs_val, y_val, t_hi) ==
    LET rows == DOMAIN probs_val
        tp == Cardinality({i \in rows : probs_val[i] >= t_hi /\ y_val[i] = 1})
        fp == Cardinality({i \in rows : probs_val[i] >= t_hi /\ y_val[i] = 0})
        fn == Cardinality({i \in rows : probs_val[i] < t_hi /\ y_val[i] = 1})
    IN IF tp = 0 THEN <<0, 1, 0>>
       ELSE <<2 * tp, 2 * tp + fp + fn, F1Rounding(tp, fp, fn)>>

\* a > b on fractions with positive denominators
FractionGreater(a, b) == a[1] * b[2] > b[1] * a[2]

\* f1 > best_f1 on the doubles
F1Greater(a, b) ==
    \/ FractionGreater(a, b)
    \/ a[1] * b[2] = b[1] * a[2] /\ a[3] > b[3]

RECURSIVE CandidatePairs(_, _, _)
\* the (t_lo, t_hi) the two loops visit, in order: t_lo = candidates[i],
\* t_hi from candidates[i + offset:]
CandidatePairs(candidates, i, offset) ==
    IF i > Len(candidates) THEN <<>>
    ELSE [k \in 1..(Len(candidates) - (i + offset) + 1) |->
              <<candidates[i], candidates[i + offset + k - 1]>>]
         \o CandidatePairs(candidates, i + 1, offset)

RECURSIVE BestPair(_, _, _, _, _)
\* the loop body over the remaining pairs: a pair replaces the best one only
\* when its F1 is strictly greater
BestPair(pairs, probs_val, y_val, best_f1, best_pair) ==
    IF pairs = <<>> THEN best_pair
    ELSE LET f1 == ThresholdF1(probs_val, y_val, Head(pairs)[2])
         IN IF F1Greater(f1, best_f1)
            THEN BestPair(Tail(pairs), probs_val, y_val, f1, Head(pairs))
            ELSE BestPair(Tail(pairs), probs_val, y_val, best_f1, best_pair)

\* tune_thresholds pairing each candidate with itself too, without the final
\* ordering guard
tune_thresholds_unordered(probs_val, y_val) ==
    IF Len(probs_val) = 0 THEN DefaultThresholds
    ELSE LET candidates == SetToSeq({probs_val[i] : i \in DOMAIN probs_val})
         IN BestPair(CandidatePairs(candidates, 1, 0), probs_val, y_val,
                     <<0 - 1, 1, 0>>, DefaultThresholds)

tune_thresholds(probs_val, y_val) ==
    IF Len(probs_val) = 0 THEN DefaultThresholds
    ELSE LET candidates == SetToSeq({probs_val[i] : i \in DOMAIN probs_val})
             best_pair == BestPair(CandidatePairs(candidates, 1, 1), probs_val, y_val,
                                   <<0 - 1, 1, 0>>, DefaultThresholds)
         IN IF best_pair[1] >= best_pair[2] THEN DefaultThresholds ELSE best_pair

InitThresholds == PureInit("tune_thresholds", ValidationSets)

TuneThresholds ==
    /\ ret.op = "tune_thresholds" /\ ret.outcome = "pending"
    /\ ret' = [ret EXCEPT !.outcome = "ok",
                          !.returned = tune_thresholds(ret.value.probs, ret.value.y)]
    /\ UNCHANGED <<clock, runs, evidence, priors, features, scores, models, web>>

NextThresholds == TuneThresholds

SpecThresholds == InitThresholds /\ [][NextThresholds]_vars

\* longer validation sets over three probabilities and the two labels
MaxTuneRows == 6

TuningSets(max_rows) ==
    UNION {{[probs |-> pv, y |-> yv] : pv \in [1..n -> {100, 500, 900}], yv \in [1..n -> {0, 1}]}
           : n \in 0..max_rows}

InitTuning == PureInit("tune_thresholds", TuningSets(MaxTuneRows))

SpecTuning == InitTuning /\ [][NextThresholds]_vars

-----------------------------------------------------------------------------
(* services/model_training.py: split_train_val.  What the seeded generator  *)
(* shuffles the indices into is numpy's business: rng gives, for each seed, *)
(* some permutation of the indices, the same whenever a generator is built  *)
(* from that seed.  The call in flight keeps rows, split_ratio and rng in   *)
(* ret.value and the split returned for each seed in ret.returned.          *)

MaxSplitRows == 3
MaxSplitCalls == 2

Seeds == {0, 42}
SplitRatios == {0 - 500, 0, 500, 800, 1500}

DatasetRow(run_id, label) == [run_id |-> run_id, label |-> label]
DatasetRows == {DatasetRow("r1", 0), DatasetRow("r1", 1), DatasetRow("r2", 1)}

\* the orders rng.shuffle can leave np.arange(n) in
ShuffledIndices(n) == {f \in [1..n -> 1..n] : \A i, j \in 1..n : f[i] = f[j] => i = j}

SplitInputs(max_rows) ==
    UNION {{[rows |-> rows, split_ratio |-> ratio, rng |-> rng] :
                rows \in [1..n -> DatasetRows], ratio \in SplitRatios,
                rng \in [Seeds -> ShuffledIndices(n)]}
           : n \in 0..max_rows}

\* int(x) of a float in thousandths: truncation toward zero
IntOfFloat(x) == IF x >= 0 THEN x \div 1000 ELSE 0 - ((0 - x) \div 1000)

\* split_train_val without the cap that keeps one row for validation
split_train_val_uncapped(rows, split_ratio, seed, rng) ==
    LET indices == rng[seed]
        n_train == Min2(Max2(1, IntOfFloat(Len(rows) * split_ratio)), Len(rows))
    IN [train |-> [k \in 1..n_train |-> rows[indices[k]]],
        val |-> [k \in 1..(Len(rows) - n_train) |-> rows[indices[n_train + k]]]]

split_train_val(rows, split_ratio, seed, rng) ==
    LET indices == rng[seed]
        n_train0 == Max2(1, IntOfFloat(Len(rows) * split_ratio))
        n_train == IF Len(rows) > 1 THEN Min2(n_train0, Len(rows) - 1) ELSE Len(rows)
    IN [train |-> [k \in 1..n_train |-> rows[indices[k]]],
        val |-> [k \in 1..(Len(rows) - n_train) |-> rows[indices[n_train + k]]]]

\* no split returned yet for a seed
NoSplit == [split |-> None]

InitSplit == PureInit("split_train_val", SplitInputs(MaxSplitRows))

SplitsSoFar == IF ret.outcome = "pending" THEN [s \in Seeds |-> NoSplit] ELSE ret.returned

SplitTrainVal(seed) ==
    /\ ret.op = "split_train_val"
    /\ ret.deleted < MaxSplitCalls
    /\ ret' = [ret EXCEPT !.outcome = "ok", !.deleted = @ + 1, !.run_id = seed,
                   !.returned = [SplitsSoFar EXCEPT ![seed] =
                        split_train_val(ret.value.rows, ret.value.split_ratio, seed,
                                        ret.value.rng)]]
    /\ UNCHANGED <<clock, runs, evidence, priors, features, scores, models, web>>

NextSplit == \E seed \in Seeds : SplitTrainVal(seed)

SpecSplit == InitSplit /\ [][NextSplit]_vars

-----------------------------------------------------------------------------
(* Evidence stored through the pipeline and through the repository alone,   *)
(* which takes any run id, while the wall clock advances                    *)

\* EvidenceRepo.upsert_from_gdelt called on its own and committed
UpsertFromGdelt(run_id, u) ==
    /\ evidence' = upsert_from_gdelt(evidence, run_id, GdeltArticle(u), clock)
    /\ evidence' # evidence
    /\ ret' = Ret("upsert_from_gdelt", run_id, "", "ok", "", u, "")
    /\ UNCHANGED <<clock, runs, priors, features, scores, models, web>>

NextTemporal ==
    \/ Tick
    \/ \E c \in ClaimTexts, urls \in ArticleLists : FetchAndStoreEvidence(c, urls)
    \/ \E r \in CallRunIds, u \in Urls : UpsertFromGdelt(r, u)
    \/ \E r \in CallRunIds : ComputeFeatures(r)

SpecTemporal == Init /\ [][NextTemporal]_vars

-----------------------------------------------------------------------------
(* The trained scorer over artifacts stored through the repository, whose   *)
(* calibration is whatever pair the caller stored                           *)

StoredCalibrations ==
    FittedCalibrations \cup {[method |-> "platt", a |-> 150000, b |-> 0],
                             [method |-> "platt", a |-> 0 - 150000, b |-> 0]}

\* TrainedModelRepository.upsert called on its own and committed
UpsertModel(model) ==
    /\ models' = upsert(models, model)
    /\ models' # models
    /\ ret' = [Ret("upsert", 0, model.model_id, "ok", "", 0, "")
                  EXCEPT !.deleted = Cardinality(ModelRows(models, model.model_id))]
    /\ UNCHANGED <<clock, runs, evidence, priors, features, scores, web>>

NextCalibrated ==
    \/ \E c \in ClaimTexts, urls \in ShortArticleLists : FetchAndStoreEvidence(c, urls)
    \/ \E r \in RunIds : ComputeFeatures(r)
    \/ \E r \in RunIds : ComputeScoreForRun(r, "lr_v1")
    \/ \E w \in FittedWeights, c \in StoredCalibrations, t \in FittedThresholds :
            UpsertModel(TrainedModel("lr_v1", "v1", w, c, t))

SpecCalibrated == Init /\ [][NextCalibrated]_vars

-----------------------------------------------------------------------------
(* services/benchmarking.py: the ablation loop of run_benchmark.  It reads  *)
(* the runs and features the first loop committed, so it is a step of its   *)
(* own over the stored runs; the dataset is one claim with its label, and   *)
(* the ece added to each metrics dict is left out.                          *)

FEATURE_GROUPS == <<"volume", "source_quality", "temporal", "corroboration">>

\* .filter(Run.claim_text == row.claim_text).order_by(Run.created_at.desc())
\* .first(): the last created run with this claim text, 0 when there is none
AblationRun(claim_text) ==
    LET hits == {r \in DOMAIN runs : runs[r].claim_text = claim_text}
    IN IF hits = {} THEN 0 ELSE CHOOSE r \in hits : \A q \in hits : q <= r

\* feature_map with feature_map[name] = 0.0 for every name of the group
ZeroedFeatureMap(run_id, group) ==
    LET feats == FeatureRows(features, run_id)
        feature_map == FeatureMap(feats)
        group_names == {feats[i].feature_name :
                            i \in {j \in DOMAIN feats : feats[j].feature_group = group}}
    IN [n \in DOMAIN feature_map |-> IF n \in group_names THEN 0 ELSE feature_map[n]]

\* the score and label of a feature map: the baseline's own functions, or the
\* stored weights and thresholds with the clipped sigmoid and no calibration
AblationScore(model_id, feature_map) ==
    IF model_id = MODEL_VERSION
    THEN LET score == _calibrate(_raw_score(feature_map))
         IN [score |-> score, label |-> _label(score)]
    ELSE LET model == get(models, model_id)
             feature_names == model.feature_names
             logit == WeightOf(model, "intercept")
                        + SumSeq([i \in DOMAIN feature_names |->
                                    (WeightOf(model, feature_names[i])
                                     * (IF feature_names[i] \in DOMAIN feature_map
                                        THEN feature_map[feature_names[i]] ELSE 0))
                                    \div 1000])
             score == Sigmoid(Max2(Min2(logit, 50000), -50000))
         IN [score |-> score,
             label |-> TrainedLabel(score, model.thresholds.t_lo, model.thresholds.t_hi)]

\* ablations[model_id]: for each group of FEATURE_GROUPS the feature map scored
\* for the dataset row and the metrics of the rows evaluated
Ablations(model_id, claim_text, label) ==
    [group \in SeqToSet(FEATURE_GROUPS) |->
        LET run_id == AblationRun(claim_text)
            skipped == run_id = 0
                        \/ (model_id # MODEL_VERSION /\ get(models, model_id) = NoModel)
            feature_map == ZeroedFeatureMap(run_id, group)
            scored == AblationScore(model_id, feature_map)
            eval_rows == IF skipped THEN <<>>
                         ELSE <<EvalRow(label, scored.score, scored.label)>>
        IN [feature_map |-> IF skipped THEN <<>> ELSE feature_map,
            eval_rows |-> eval_rows,
            metrics |-> compute_metrics(eval_rows)]]

BenchmarkAblations(model_id, claim_text, label) ==
    /\ ret' = [Ret("run_benchmark", AblationRun(claim_text), model_id, "ok", "", label, "")
                  EXCEPT !.returned = Ablations(model_id, claim_text, label)]
    /\ ret' # ret
    /\ UNCHANGED <<clock, runs, evidence, priors, features, scores, models, web>>

NextBenchmark ==
    \/ \E c \in ClaimTexts, urls \in ShortArticleLists : FetchAndStoreEvidence(c, urls)
    \/ \E d \in PriorDomains, p \in PriorScores : UpsertPrior(d, p)
    \/ \E r \in RunIds : ComputeFeatures(r)
    \/ \E w \in FittedWeights, t \in FittedThresholds :
            TrainAndRegister("lr_v1", "v1", w, NoCalibration, t)
    \/ \E m \in CallModelIds, c \in ClaimTexts, label \in {0, 1} :
            BenchmarkAblations(m, c, label)

SpecBenchmark == Init /\ [][NextBenchmark]_vars

-----------------------------------------------------------------------------
(* api/routes_runs.py: POST /api/runs.  The handler commits after each of   *)
(* its stages, so a request is a sequence of steps; ret holds the request   *)
(* in flight: its run, its model_id, the stage reached (outcome) and the    *)
(* max_records handed to the evidence fetcher (value).  Requests are served *)
(* one at a time and ask for no explanation (include_explanation false).    *)

\* settings.max_records_cap
max_records_cap == 50

\* payload.max_records: Field(25, ge=1, le=250)
RequestedMaxRecords == {1, 25, 50, 51, 250}

ApiIdle == ret.op # "create_run_endpoint" \/ ret.outcome \in {"HTTP 200", "HTTP 500"}

ApiAt(stage) == ret.op = "create_run_endpoint" /\ ret.outcome = stage

\* an except branch that answers 500 and leaves the run as it is
ApiFail_unmarked(error) ==
    /\ UNCHANGED runs
    /\ ret' = [ret EXCEPT !.outcome = "HTTP 500", !.message = error]

\* the except branch: the run is marked failed with error_text = str(e) and
\* the request answered 500 with detail {run_id, error}
ApiFail(error) ==
    /\ runs' = [runs EXCEPT ![ret.run_id].status = "failed",
                            ![ret.run_id].error_text = error]
    /\ ret' = [ret EXCEPT !.outcome = "HTTP 500", !.message = error]

\* run_id = create_run(session, ...): the run is flushed with status "started"
ApiCreateRun(claim_text, max_records, model_id) ==
    /\ ApiIdle
    /\ Len(runs) < MaxRuns
    /\ runs' = Append(runs, create_run(claim_text))
    /\ ret' = Ret("create_run_endpoint", Len(runs) + 1, model_id, "started", "",
                  max_records, "")
    /\ UNCHANGED <<clock, evidence, priors, features, scores, models, web>>

\* run.status = "created" and commit
ApiMarkCreated ==
    /\ ApiAt("started")
    /\ runs' = [runs EXCEPT ![ret.run_id].status = "created"]
    /\ ret' = [ret EXCEPT !.outcome = "created"]
    /\ UNCHANGED <<clock, evidence, priors, features, scores, models, web>>

\* articles = evidence_fetcher(query_text, payload.max_records), then one
\* upsert_from_gdelt(..., snippet=...) per article, which takes no snippet
ApiFetch(urls) ==
    /\ ApiAt("created")
    /\ Len(urls) <= ret.value
    /\ IF urls = <<>>
       THEN /\ ret' = [ret EXCEPT !.outcome = "fetched"]
            /\ UNCHANGED runs
       ELSE ApiFail("TypeError: unexpected keyword argument 'snippet'")
    /\ UNCHANGED <<clock, evidence, priors, features, scores, models, web>>

\* service.compute_features(run_id)
ApiFeatures ==
    /\ ApiAt("fetched")
    /\ features' = insert_batch(delete_by_run(features, ret.run_id), ret.run_id,
                                extract_for_run(ret.run_id))
    /\ ret' = [ret EXCEPT !.outcome = "featured"]
    /\ UNCHANGED <<clock, runs, evidence, priors, scores, models, web>>

\* service.compute_score_for_run(run_id, model_version=payload.model_id)
ApiScore ==
    /\ ApiAt("featured")
    /\ LET result == ScoreRun(ret.run_id, ret.model_version)
       IN IF count_by_run(features, ret.run_id) = 0
          THEN /\ ApiFail("Run {run_id} has no computed features")
               /\ UNCHANGED scores
          ELSE IF result.outcome # "ok"
          THEN /\ ApiFail(result.message)
               /\ UNCHANGED scores
          ELSE /\ MaxScoreIdOf(DeleteScore(scores, ret.run_id, ret.model_version))
                    < MaxScoreId
               /\ scores' = upsert_score(scores, ret.run_id, ret.model_version,
                                         result.score, result.label)
               /\ ret' = [ret EXCEPT !.outcome = "scored", !.label = result.label,
                                     !.returned = [score |-> result.score]]
               /\ UNCHANGED runs
    /\ UNCHANGED <<clock, evidence, priors, features, models, web>>

\* run.status = "completed", commit, and the response
ApiComplete ==
    /\ ApiAt("scored")
    /\ runs' = [runs EXCEPT ![ret.run_id].status = "completed"]
    /\ ret' = [ret EXCEPT !.outcome = "HTTP 200",
                          !.returned = [run_id |-> ret.run_id, status |-> "completed",
                                        score |-> ret.returned.score, label |-> ret.label,
                                        evidence_count |-> Len(EvidenceUrls(ret.run_id)),
                                        features |-> FeatureRows(features, ret.run_id)]]
    /\ UNCHANGED <<clock, evidence, priors, features, scores, models, web>>

NextApi ==
    \/ \E c \in ClaimTexts, n \in RequestedMaxRecords, m \in CallModelIds :
            ApiCreateRun(c, n, m)
    \/ ApiMarkCreated
    \/ \E urls \in ShortArticleLists : ApiFetch(urls)
    \/ ApiFeatures
    \/ ApiScore
    \/ ApiComplete
    \/ ApiIdle /\ \E c \in ClaimTexts, urls \in ShortArticleLists :
                    FetchAndStoreEvidence(c, urls)
    \/ ApiIdle /\ \E t \in FittedThresholds :
                    TrainAndRegister("lr_v1", "v1", 1000, NoCalibration, t)

SpecApi == Init /\ [][NextApi]_vars

-----------------------------------------------------------------------------
(* Feature computation that may fail after its purge, and baseline scoring *)

NextPurge ==
    \/ Tick
    \/ \E c \in ClaimTexts, urls \in ShortArticleLists : FetchAndStoreEvidence(c, urls)
    \/ \E r \in CallRunIds : ComputeFeatures(r)
    \/ \E r \in RunIds : ComputeFeaturesRaises(r)
    \/ \E r \in CallRunIds : ComputeScoreForRun(r, MODEL_VERSION)

SpecPurge == Init /\ [][NextPurge]_vars

-----------------------------------------------------------------------------
(* The rate limiter under requests of two clients *)

NextLimiter ==
    \/ \E k \in ClientKeys : RateLimitMiddleware(k)
    \/ TimePasses

SpecLimiter == Init /\ [][NextLimiter]_vars

-----------------------------------------------------------------------------
(* The evidence fetcher: the loop runs on once entered *)

NextFetcher ==
    \/ EvidenceFetcherCall
    \/ \E articles \in ArticleLists : FetchReturns(articles)
    \/ FetchRaises
    \/ TimeoutUnreadable

SpecFetcher == Init /\ [][NextFetcher]_vars /\ WF_vars(FetchLoop)

-----------------------------------------------------------------------------
(* Properties of feature extraction and the feature store *)

PairsOf(rows) == [i \in DOMAIN rows |-> <<rows[i].feature_group, rows[i].feature_name>>]

NoDuplicates(s) == \A i, j \in DOMAIN s : s[i] = s[j] => i = j

\* the value of the row of this group and name, when rows holds exactly one
ValueOf(rows, group, name) ==
    LET hits == {i \in DOMAIN rows : rows[i].feature_group = group
                                     /\ rows[i].feature_name = name}
    IN IF Cardinality(hits) = 1 THEN rows[CHOOSE i \in hits : TRUE].feature_value
       ELSE 0 - 1

C5_MissingRunRaises ==
    [][ (ret' # ret /\ ret'.op = "compute_features" /\ ret'.run_id \notin DOMAIN runs) =>
            /\ ret'.outcome = "ValueError"
            /\ ret'.message = "Run {run_id} does not exist"
            /\ features' = features ]_vars

\* the call failed on a missing run while another run has stored features
C5_Witness ==
    /\ ret.op = "compute_features" /\ ret.outcome = "ValueError"
    /\ ret.run_id \notin DOMAIN runs
    /\ \E r \in DOMAIN runs : features[r] # <<>>

\* C6: extraction is total: every run, whatever its evidence, yields the same
\* set of (group, name) pairs, each exactly once.
C6_SameNamesForEveryRun ==
    \A r1, r2 \in DOMAIN runs :
        /\ SeqToSet(PairsOf(extract_for_run(r1))) = SeqToSet(PairsOf(extract_for_run(r2)))
        /\ NoDuplicates(PairsOf(extract_for_run(r1)))

SchemaGroups(schema_version) ==
    IF schema_version = "v1" THEN BASE_FEATURE_GROUPS ELSE EXPANDED_FEATURE_GROUPS

\* the groups under which a name is stored
GroupsOfName(name) == {row.feature_group : row \in {x \in AllFeatureRows : x.feature_name = name}}

-----------------------------------------------------------------------------
(* Properties of scoring and the score store *)

RowsOfPair(tbl, run_id, model_version) ==
    {row \in tbl : row.run_id = run_id /\ row.model_version = model_version}

ModelStored(tbl, model_id) == \E i \in DOMAIN tbl : tbl[i].model_id = model_id

\* C2: the score store holds at most one row per (run_id, model_version); after
\* a compute_score_for_run call the pair's one row carries the score and label
\* that call returned; the rows of a pair change only by a call for that pair.
C2_OneScorePerPair ==
    /\ [](\A r \in CallRunIds, m \in CallModelIds :
            Cardinality(RowsOfPair(scores, r, m)) <= 1)
    /\ []((ret.op = "compute_score_for_run" /\ ret.outcome = "ok") =>
            \E row \in scores :
                /\ RowsOfPair(scores, ret.run_id, ret.model_version) = {row}
                /\ row.score = ret.value
                /\ row.label = ret.label)
    /\ [][\A r \in CallRunIds, m \in CallModelIds :
            RowsOfPair(scores', r, m) # RowsOfPair(scores, r, m) =>
                /\ ret'.op = "compute_score_for_run" /\ ret'.outcome = "ok"
                /\ ret'.run_id = r /\ ret'.model_version = m]_vars

\* a call replaced the row of its pair while another pair keeps its row
C2_Witness ==
    /\ ret.op = "compute_score_for_run" /\ ret.outcome = "ok"
    /\ ret.deleted = 1
    /\ Cardinality(scores) = 2
    /\ Cardinality(RowsOfPair(scores, ret.run_id, ret.model_version)) = 1

\* why compute_score_for_run cannot score this run with this model
MissingForScore(run_id, model_version) ==
    \/ run_id \notin DOMAIN runs
    \/ features[run_id] = <<>>
    \/ model_version # MODEL_VERSION /\ ~ModelStored(models, model_version)

\* C4: the score store changes only by a compute_score_for_run whose run exists,
\* has a stored feature row and whose model (when not the baseline) exists; a
\* call with the run, the features or the model missing raises and leaves the
\* score store as it was.
C4_ScoreOnlyWhenReady ==
    /\ [][scores' # scores =>
            /\ ret'.op = "compute_score_for_run" /\ ret'.outcome = "ok"
            /\ ~MissingForScore(ret'.run_id, ret'.model_version)]_vars
    /\ [][(ret'.op = "compute_score_for_run"
            /\ MissingForScore(ret'.run_id, ret'.model_version)) =>
            /\ ret'.outcome = "ValueError"
            /\ ret'.message \in {"Run {run_id} does not exist",
                                 "Run {run_id} has no computed features",
                                 "Model {model_id} not found"}
            /\ scores' = scores]_vars

\* the call failed on a missing model for a run that has features, with a
\* score row already stored
C4_Witness ==
    /\ ret.op = "compute_score_for_run" /\ ret.outcome = "ValueError"
    /\ ret.message = "Model {model_id} not found"
    /\ ret.run_id \in DOMAIN runs /\ features[ret.run_id] # <<>>
    /\ scores # {}

\* the values a run stores under a feature name
StoredValues(run_id, name) ==
    {features[run_id][i].feature_value :
        i \in {j \in DOMAIN features[run_id] : features[run_id][j].feature_name = name}}

\* a vector is the positional fill of a name list for a run: same length, the
\* stored value where the run stores the name, 0 where it does not
IsZeroFill(vec, run_id, names) ==
    /\ Len(vec) = Len(names)
    /\ \A i \in DOMAIN names :
        IF StoredValues(run_id, names[i]) = {} THEN vec[i] = 0
        ELSE vec[i] \in StoredValues(run_id, names[i])

\* the name lists vectorize_run is tried on
NameLists ==
    {canonical_feature_names(v) : v \in SchemaVersions}
        \cup {models[i].feature_names : i \in DOMAIN models}
        \cup {<<>>, <<"recency_score", "no_such_feature", "weighted_prior_mean">>}

\* C8: vectorize_run returns the positional fill of the name list, 0.0 for a
\* name the run does not store, and the trained scorer's values are the same
\* fill of the artifact's names.
C8_ZeroFill ==
    /\ \A r \in CallRunIds, names \in NameLists :
        IsZeroFill(vectorize_run(r, names), r, names)
    /\ \A r \in CallRunIds, i \in DOMAIN models :
        IsZeroFill(TrainedValues(r, models[i]), r, models[i].feature_names)

\* a run with stored features lacks a name of the registered artifact, and a
\* run without any stored feature is vectorized over the canonical names, one
\* of which has the baseline default 0.5
C8_Witness ==
    /\ models # <<>>
    /\ \E r \in DOMAIN runs :
        /\ features[r] # <<>>
        /\ StoredValues(r, "median_prior") = {}
        /\ \E i \in DOMAIN models[1].feature_names :
            /\ models[1].feature_names[i] = "median_prior"
            /\ TrainedValues(r, models[1])[i] = 0
    /\ \E r \in DOMAIN runs :
        /\ features[r] = <<>>
        /\ \E i \in DOMAIN canonical_feature_names("v1") :
            /\ canonical_feature_names("v1")[i] = "weighted_prior_mean"
            /\ vectorize_run(r, canonical_feature_names("v1"))[i] = 0

-----------------------------------------------------------------------------
(* Properties of the model registry *)

\* C3: the registry holds at most one artifact per model_id; a registration
\* under a stored model_id leaves exactly one artifact under it, the one just
\* registered, which get returns; the artifact of a model_id changes only by a
\* registration under it.
C3_OneArtifactPerModel ==
    /\ [](\A m \in ModelIds : Cardinality(ModelRows(models, m)) <= 1)
    /\ [][/\ \A m \in ModelIds :
                ModelRows(models, m) # {} => Cardinality(ModelRows(models', m)) = 1
          /\ \A m \in ModelIds :
                get(models', m) # get(models, m) =>
                    ret'.op = "train_and_register" /\ ret'.model_version = m
         ]_vars
    /\ [](ret.op = "train_and_register" =>
            /\ ret.returned.model_id = ret.model_version
            /\ get(models, ret.model_version) = ret.returned)

\* a registration replaced the artifact of its model_id while the other
\* model_id keeps its own
C3_Witness ==
    /\ ret.op = "train_and_register" /\ ret.deleted = 1
    /\ Len(models) = 2
    /\ get(models, ret.model_version).feature_names # <<>>
    /\ \A m \in ModelIds : get(models, m) # NoModel

-----------------------------------------------------------------------------
(* Properties of the baseline labels *)

\* C10: the baseline label is credible exactly for a score of at least 0.67,
\* uncertain exactly from 0.33 up to but not including 0.67, not_credible
\* exactly below 0.33: every score gets exactly one of the three.
C10_LabelThresholds ==
    (ret.op = "_label" /\ ret.outcome = "ok") =>
        /\ ret.label \in {"credible", "uncertain", "not_credible"}
        /\ ret.label = "credible" <=> ret.value >= 670
        /\ ret.label = "uncertain" <=> (ret.value >= 330 /\ ret.value < 670)
        /\ ret.label = "not_credible" <=> ret.value < 330

\* the score on the upper threshold was labelled
C10_Witness ==
    /\ ret.op = "_label" /\ ret.outcome = "ok"
    /\ ret.value = 670 /\ ret.label = "credible"

-----------------------------------------------------------------------------
(* Properties of the trained scorer *)

-----------------------------------------------------------------------------
(* Properties of the training dataset *)

\* C12: load_dataset returns exactly the rows whose label cell, trimmed and
\* lower-cased, is 1, credible (label 1), 0 or not_credible (label 0); every
\* other row is dropped, so no returned label is outside {0, 1}.
C12_OnlyBinaryLabels ==
    (ret.op = "load_dataset" /\ ret.outcome = "ok") =>
        LET csv == ret.value
            rows == ret.returned
            binary == {i \in DOMAIN csv :
                        StripLower(csv[i]) \in {"1", "credible", "0", "not_credible"}}
        IN /\ \A j \in DOMAIN rows : rows[j].label \in {0, 1}
           /\ {rows[j].run_id : j \in DOMAIN rows} = binary
           /\ Len(rows) = Cardinality(binary)

-----------------------------------------------------------------------------
(* Properties of the evaluation metrics *)

\* the rows with this true label whose prediction is (positive = TRUE) or is
\* not (positive = FALSE) credible
RowsWith(rows, label, positive) ==
    {i \in DOMAIN rows :
        rows[i].label = label /\ ((rows[i].predicted_label = "credible") = positive)}

\* C13: compute_metrics counts a row as predicted positive iff its
\* predicted_label is credible; every row falls in exactly one of tp, tn, fp,
\* fn, so they add up to n, and accuracy is (tp + tn) / n.
C13_ConfusionMatrix ==
    (ret.op = "compute_metrics" /\ ret.outcome # "pending") =>
        LET rows == ret.value
            m == ret.returned
        IN /\ m.n = Len(rows)
           /\ m.tp = Cardinality(RowsWith(rows, 1, TRUE))
           /\ m.fn = Cardinality(RowsWith(rows, 1, FALSE))
           /\ m.fp = Cardinality(RowsWith(rows, 0, TRUE))
           /\ m.tn = Cardinality(RowsWith(rows, 0, FALSE))
           /\ m.tp + m.tn + m.fp + m.fn = m.n
           /\ m.n > 0 => m.accuracy = ((m.tp + m.tn) * 1000) \div m.n

\* the scenario: labels 1, 0, 1, 0 predicted credible, not_credible,
\* uncertain, credible give one of each and accuracy 0.5
C13_Witness ==
    /\ ret.op = "compute_metrics" /\ ret.outcome = "ok"
    /\ Len(ret.value) = 4
    /\ [i \in 1..4 |-> ret.value[i].label] = <<1, 0, 1, 0>>
    /\ [i \in 1..4 |-> ret.value[i].predicted_label]
          = <<"credible", "not_credible", "uncertain", "credible">>
    /\ ret.returned.tp = 1 /\ ret.returned.tn = 1
    /\ ret.returned.fp = 1 /\ ret.returned.fn = 1
    /\ ret.returned.accuracy = 500

\* C14: compute_metrics never raises: precision, recall, F1 and accuracy are 0
\* when their denominator is 0, auroc is None with fewer than two classes
\* present, and a calibration bin without scores is reported with count 0.
C14_DegenerateInput ==
    (ret.op = "compute_metrics" /\ ret.outcome # "pending") =>
        LET rows == ret.value
            m == ret.returned
            classes == {rows[i].label : i \in DOMAIN rows}
        IN /\ ret.outcome = "ok"
           /\ m.tp + m.fp = 0 => m.precision = 0
           /\ m.tp + m.fn = 0 => m.recall = 0
           /\ m.precision + m.recall = 0 => m.f1 = 0
           /\ m.n = 0 => m.accuracy = 0
           /\ Cardinality(classes) < 2 => m.auroc = NoAuroc
           /\ Cardinality(classes) = 2 => m.auroc \in 0..1000
           /\ Len(m.calibration_bins) = 5
           /\ \A b \in 1..5 :
                LET lo == 200 * (b - 1)
                    inbin == {i \in DOMAIN rows :
                                /\ rows[i].score >= lo
                                /\ IF b = 5 THEN rows[i].score <= 1000
                                   ELSE rows[i].score < lo + 200}
                IN m.calibration_bins[b].count = Cardinality(inbin)

\* rows of one class only, none predicted credible, and empty bins
C14_Witness ==
    /\ ret.op = "compute_metrics" /\ ret.outcome = "ok"
    /\ Len(ret.value) = 3
    /\ \A i \in 1..3 : ret.value[i].label = 1 /\ ret.value[i].predicted_label # "credible"
    /\ ret.returned.auroc = NoAuroc
    /\ ret.returned.precision = 0 /\ ret.returned.f1 = 0
    /\ \E b \in 1..5 : ret.returned.calibration_bins[b].count = 0

-----------------------------------------------------------------------------
(* Frame properties of the evidence and feature stores *)

\* C15: a stored evidence item stays attached to its run with unchanged fields
\* under every later operation, so the evidence set of a run never changes
\* after the run's own ingestion.
C15_EvidenceNeverMoves ==
    [][\A u \in Urls : evidence[u] # NoRow => evidence'[u] = evidence[u]]_vars

\* the URLs of the evidence items of a run
EvidenceOf(run_id) == {u \in Urls : evidence[u].run_id = run_id}

-----------------------------------------------------------------------------
(* Properties of the HTTP API *)

\* C17: POST /api/runs never hands the evidence fetcher a max_records above
\* settings.max_records_cap.
C17_MaxRecordsCapped ==
    (ret.op = "create_run_endpoint" /\ ret.outcome \notin {"started", "created"}) =>
        ret.value <= max_records_cap

\* C18: for each client key and minute bucket, with a clock that never goes
\* back, allow returns True for exactly the first limit_per_min calls and False
\* for every further one, which the middleware answers with 429 without
\* running the handler; never more than limit_per_min calls are allowed.
C18_RateLimit ==
    /\ \A k \in ClientKeys, m \in Minutes :
        /\ seen[k][m].allowed = Min2(seen[k][m].calls, limit_per_min)
        /\ seen[k][m].allowed <= limit_per_min
    /\ ret.op = "rate_limit_middleware" =>
        /\ ret.outcome = "HTTP 429" <=> ret.value = 0
        /\ ret.outcome = "call_next" <=> ret.value = 1
        /\ ret.value = 0 <=>
             seen[ret.returned.key][ret.returned.minute].calls > limit_per_min

\* one client was refused in a minute in which the other is still served, after
\* being served its full share in an earlier minute
C18_Witness ==
    /\ ret.op = "rate_limit_middleware" /\ ret.outcome = "HTTP 429"
    /\ \E k \in ClientKeys, m \in Minutes :
        /\ m > 0 /\ seen[k][m].calls > limit_per_min
        /\ seen[k][m - 1].allowed = limit_per_min
        /\ \E k2 \in ClientKeys : seen[k2][m].allowed \in 1..(limit_per_min - 1)

\* what _fetch has done so far agrees with the retry policy
FetchWithinPolicy ==
    /\ fetcher.pc # "raised"
    /\ fetcher.calls <= 3
    /\ fetcher.attempts <= 3
    /\ fetcher.calls <= fetcher.attempts + (IF fetcher.fetched = NotFetched THEN 0 ELSE 1)
    /\ fetcher.sleeps = SubSeq(<<500, 1000>>, 1, Min2(fetcher.attempts, 2))
    /\ fetcher.pc = "try" => fetcher.attempts <= 2 /\ fetcher.fetched = NotFetched
    /\ fetcher.pc = "returned" =>
        IF fetcher.fetched = NotFetched
        THEN fetcher.attempts = 3 /\ fetcher.result = <<>>
        ELSE /\ fetcher.attempts <= 2
             /\ Len(fetcher.result) = Len(fetcher.fetched)
             /\ \A i \in 1..Len(fetcher.fetched) :
                    fetcher.result[i].url = fetcher.fetched[i]

\* C19: the evidence fetcher ends after at most 3 calls of the underlying
\* fetch: it returns the articles of the first call that succeeds, sleeps 0.5 s
\* after the first failure and 1.0 s after the second, returns an empty list
\* after the third failure in a row, and never raises to its caller.
C19_FetcherRetries ==
    /\ []FetchWithinPolicy
    /\ (fetcher.pc = "try") ~> (fetcher.pc = "returned")

\* a second call of the fetcher that gave up after three failed calls of the
\* fetch, having slept 0.5 s and 1.0 s
C19_Witness ==
    /\ fetcher.pc = "returned" /\ fetcher.n = 2
    /\ fetcher.calls = 3 /\ fetcher.attempts = 3
    /\ fetcher.sleeps = <<500, 1000>> /\ fetcher.result = <<>>

\* C20: whatever the validation probabilities and labels, tune_thresholds
\* returns a pair with t_lo < t_hi, and the default (0.33, 0.67) when there is
\* no validation data.
C20_ThresholdsOrdered ==
    (ret.op = "tune_thresholds" /\ ret.outcome = "ok") =>
        /\ ret.returned[1] < ret.returned[2]
        /\ ret.value.probs = <<>> => ret.returned = DefaultThresholds

\* thresholds tuned on data with both labels: a pair of two distinct
\* validation probabilities, not the default
C20_Witness ==
    /\ ret.op = "tune_thresholds" /\ ret.outcome = "ok"
    /\ ret.value.probs = <<100, 800, 900>> /\ ret.value.y = <<0, 1, 1>>
    /\ ret.returned = <<100, 800>>

\* the F1 of a threshold as the exact fraction
ExactF1(probs_val, y_val, t_hi) ==
    <<ThresholdF1(probs_val, y_val, t_hi)[1], ThresholdF1(probs_val, y_val, t_hi)[2]>>

\* C21: with at least two distinct validation probabilities, tune_thresholds
\* returns the pair t_lo < t_hi of observed probabilities whose F1 (positive
\* iff prob >= t_hi) is maximal over all such pairs, the first in ascending
\* (t_lo, t_hi) search order among pairs of equal F1.
C21_FirstMaximalPair ==
    LET probs_val == ret.value.probs
        y_val == ret.value.y
        observed == {probs_val[i] : i \in DOMAIN probs_val}
        pairs == CandidatePairs(SetToSeq(observed), 1, 1)
        F(k) == ExactF1(probs_val, y_val, pairs[k][2])
    IN (ret.op = "tune_thresholds" /\ ret.outcome = "ok" /\ Cardinality(observed) >= 2) =>
        \E k \in DOMAIN pairs :
            /\ ret.returned = pairs[k]
            /\ ret.returned[1] < ret.returned[2]
            /\ \A j \in DOMAIN pairs : ~FractionGreater(F(j), F(k))
            /\ \A j \in 1..(k - 1) : FractionGreater(F(k), F(j))

\* how often a row occurs in a list
Occurrences(row, rows) == Cardinality({i \in DOMAIN rows : rows[i] = row})

C23_UnknownSourceRatio ==
    (ret.op = "compute_features" /\ ret.outcome = "ok") =>
        LET rows == EvidenceRows(ret.run_id)
            unknown == Cardinality({i \in DOMAIN rows : ~PriorKnown(rows[i].domain)})
        IN ValueOf(features[ret.run_id], "source_quality", "unknown_source_ratio")
            = IF Len(rows) = 0 THEN 0 ELSE Ratio(unknown, Len(rows))

\* the wall-clock times an extraction can run at
WallClocks == 0..MaxClock

\* C24: the 'now' of the temporal features is the run's created_at when the run
\* has one, else the latest retrieved_at of its evidence, and the wall clock
\* only when there is neither; so for a stored run, extractions at different
\* wall-clock times over the same evidence give the same recency_score,
\* publication_span_hours and missing_timestamp_ratio.
C24_StableReferenceTime ==
    \A r \in CallRunIds :
        /\ \A utcnow \in WallClocks :
            _stable_reference_time(r, utcnow) =
                IF RunExists(r) THEN runs[r].created_at
                ELSE IF EvidenceOf(r) # {}
                     THEN SeqMax(SetToSeq({evidence[u].retrieved_at : u \in EvidenceOf(r)}))
                     ELSE utcnow
        /\ RunExists(r) =>
            \A t1, t2 \in WallClocks :
                _temporal_features(r, t1) = _temporal_features(r, t2)

\* a day after a run was created it holds a dated article and its features
\* are computed; a run id with no run row has evidence of its own
C24_Witness ==
    /\ ret.op = "compute_features" /\ ret.outcome = "ok"
    /\ runs[ret.run_id].created_at < clock
    /\ \E u \in EvidenceOf(ret.run_id) : evidence[u].published_at # NoTime
    /\ ValueOf(features[ret.run_id], "temporal", "recency_score") = 1000
    /\ \E r \in CallRunIds : ~RunExists(r) /\ EvidenceOf(r) # {}

C26_AblationPerGroup ==
    ret.op = "run_benchmark" =>
        /\ DOMAIN ret.returned = EXPANDED_FEATURE_GROUPS
        /\ \A group \in DOMAIN ret.returned :
            LET feats == FeatureRows(features, ret.run_id)
                used == ret.returned[group].feature_map
            IN ret.returned[group].eval_rows # <<>> =>
                \A i \in DOMAIN feats :
                    used[feats[i].feature_name] =
                        IF feats[i].feature_group = group THEN 0
                        ELSE feats[i].feature_value

\* C27: fetch_and_store_evidence creates exactly one run per call, and its
\* evidence_inserted equals the number of evidence rows stored for that run
\* when it returns, whatever list of articles was fetched (a repeated URL or
\* a URL already stored included).
C27_EvidenceInsertedCounted ==
    /\ [](ret.op = "fetch_and_store_evidence" =>
            ret.value = Len(EvidenceUrls(ret.run_id)))
    /\ [][ret'.op = "fetch_and_store_evidence" => Len(runs') = Len(runs) + 1]_vars

C29_PurgeCommittedBeforeExtract ==
    /\ [](ret.op = "compute_features" /\ ret.outcome = "raised" =>
            count_by_run(features, ret.run_id) = 0)
    /\ [][\A r \in RunIds :
            /\ (/\ RunExists(r)
                /\ count_by_run(features, r) = 0
                /\ ret'.op = "compute_score_for_run"
                /\ ret'.run_id = r)
               => /\ ret'.outcome = "ValueError"
                  /\ ret'.message = "Run {run_id} has no computed features"
                  /\ scores' = scores
            /\ (count_by_run(features, r) = 0 /\ count_by_run(features', r) > 0)
               => /\ ret'.op = "compute_features"
                  /\ ret'.outcome = "ok"
                  /\ ret'.run_id = r]_vars

\* a run that was scored once has lost its features to a failed
\* compute_features, and scoring it again has failed
C29_Witness ==
    /\ ret.op = "compute_score_for_run"
    /\ ret.message = "Run {run_id} has no computed features"
    /\ \E row \in scores : row.run_id = ret.run_id
    /\ count_by_run(features, ret.run_id) = 0

\* C30: a denied allow call leaves the key's stored count and bucket as they
\* were; the first call of a key in a minute bucket other than its recorded
\* one (or of a key never seen) is allowed and restarts its count at 1,
\* whatever was allowed or denied before; and a call for one key never
\* changes the stored bucket of another key.
C30_DeniedCallsAndBucketChange ==
    [][seen' # seen =>
        LET key == ret'.returned.key
            minute == ret'.returned.minute
        IN /\ ret'.op = "rate_limit_middleware"
           /\ \A other \in ClientKeys \ {key} : buckets'[other] = buckets[other]
           /\ ret'.value = 0 => buckets'[key] = buckets[key]
           /\ (buckets[key] = NoBucket \/ buckets[key][2] # minute) =>
                /\ ret'.value = 1
                /\ buckets'[key] = <<1, minute>>]_vars

\* a client refused in one minute has just been served its first call of the
\* next minute, while the other client's bucket is still that of the earlier
\* minute
C30_Witness ==
    /\ ret.op = "rate_limit_middleware" /\ ret.value = 1
    /\ LET key == ret.returned.key
           minute == ret.returned.minute
       IN /\ minute > 0
          /\ seen[key][minute].calls = 1
          /\ seen[key][minute - 1].calls > seen[key][minute - 1].allowed
          /\ buckets[key] = <<1, minute>>
          /\ \E other \in ClientKeys \ {key} :
                /\ buckets[other] # NoBucket
                /\ buckets[other][2] = minute - 1

=============================================================================
